---- MODULE Spec2Model ----
(***************************************************************************)
(* A model of the GossiPBFT core of go-f3: the quorum tracker, the message *)
(* and justification validator, the instance state machine and the         *)
(* participant that multiplexes instances.                                 *)
(*                                                                         *)
(* Time is abstracted: of the host clock only the comparison               *)
(* atOrAfter(host.Time(), phaseTimeout) is kept, as the instance field     *)
(* phaseTimeout with the two values PENDING and EXPIRED.  A new timeout is *)
(* now + 2*delta*backoff^round, which lies in the future (PENDING); time   *)
(* passing turns it into EXPIRED.                                          *)
(***************************************************************************)
EXTENDS Integers, Sequences, FiniteSets, TLC

VARIABLES
    q,        \* SpecQuorum: one quorumState with its power table
    qcall,    \* SpecQuorum: the last call made on q
    vmsg,     \* SpecValidate: the message handed to instance.validateMessage
    vres,     \* SpecValidate: the validator's answer for vmsg
    part,     \* Spec: the Participant, its active instance and its host
    gpbft,    \* SpecInstance: one instance, driven without its participant
    net,      \* SpecNet: the participants of a network with an adversary
    sim       \* SpecSim: a simulation: participants, clock and delivery queue

vars == <<q, qcall, vmsg, vres, part, gpbft, net, sim>>

-----------------------------------------------------------------------------
(* Bounds of the model *)

\* Stand-in for math.MaxUint64: rounds of validated messages are 0..MaxUint64
\* and round arithmetic wraps modulo MaxUint64 + 1.
MaxUint64 == 3
\* Stand-in for CHAIN_MAX_LEN (100 in the program).
CHAIN_MAX_LEN == 3
\* The largest round an instance is driven to.
MaxRound == 1

\* The largest round of a message a participant of Spec receives.
SpecMaxRound == 0
\* Number of messages that change a participant of SpecNet; any number of
\* others is delivered to it.
NetMaxMsgs == 3
\* Instances 0..MaxInstance are run by the participant of Spec.
MaxInstance == 1
\* The largest power of an entry of the power tables of SpecQuorum.
MaxPower == 3
\* Number of messages the network hands to the participant of Spec.
MaxMsgs == 3
\* The largest part and total hasStrongQuorum and hasWeakQuorum are called with.
MaxThresholdPower == 30

\* SpecSim: the synchrony parameter delta and its growth per round, in time units.
SimDelta == 1
SimBackoff == 2

\* SpecSim: the instances of the scenario of consecutive instances, and the
\* first instance in which its participants propose different chains.
SimInstanceCount == 3
SimDivergeAt == 1
\* The option maxLookaheadRounds of the participant.
maxLookaheadRounds == 0

-----------------------------------------------------------------------------
(* Phases: gpbft.go, const block *)

INITIAL_PHASE == 0
QUALITY_PHASE == 1
CONVERGE_PHASE == 2
PREPARE_PHASE == 3
COMMIT_PHASE == 4
DECIDE_PHASE == 5
TERMINATED_PHASE == 6

PENDING == FALSE
EXPIRED == TRUE

EmptyMap == [k \in {} |-> k]

\* m with key k set to v (Go: m[k] = v).
MapPut(m, k, v) == [x \in (DOMAIN m) \cup {k} |-> IF x = k THEN v ELSE m[x]]

\* The element of a one-element set.  TheOne({f(x) : x \in {e}}) is f(e), with
\* e evaluated once and named x.
TheOne(S) == CHOOSE x \in S : TRUE

-----------------------------------------------------------------------------
(* EC chains.  A tipset is a positive integer that stands for both its     *)
(* epoch and its key; 0 is the tipset with the empty key.  A chain is a    *)
(* sequence of tipsets, the empty sequence is bottom.                      *)

Bottom == <<>>

IsZero(c) == Len(c) = 0

Base(c) == c[1]

BaseChain(c) == <<c[1]>>

ChainHead(c) == c[Len(c)]

\* The first to+1 tipsets (the whole chain when it is shorter).
Prefix(c, to) == SubSeq(c, 1, IF to + 1 < Len(c) THEN to + 1 ELSE Len(c))

Suffix(c) == IF IsZero(c) THEN <<>> ELSE Tail(c)

HasBase(c, t) == ~IsZero(c) /\ c[1] = t

HasPrefix(c, other) ==
    /\ ~IsZero(c)
    /\ ~IsZero(other)
    /\ Len(other) <= Len(c)
    /\ SubSeq(c, 1, Len(other)) = other

ChainEq(c, other) == c = other

\* The key of a chain is collision free: the chain itself stands for it.
Key(c) == c

ChainValidate(c) ==
    \/ IsZero(c)
    \/ /\ Len(c) <= CHAIN_MAX_LEN
       /\ \A i \in 1..Len(c) : c[i] # 0
       /\ \A i \in 1..(Len(c) - 1) : c[i] < c[i + 1]

-----------------------------------------------------------------------------
(* Power table: entries ordered by descending power, then ascending id.    *)

PubKeyOf(id) == 10 + id

MkTable(entries) ==
    LET Sum[n \in 0..Len(entries)] ==
            IF n = 0 THEN 0 ELSE Sum[n - 1] + entries[n].Power
    IN  [Entries |-> entries, Total |-> Sum[Len(entries)]]

PtHas(pt, id) == \E n \in 1..Len(pt.Entries) : pt.Entries[n].ID = id

\* Lookup[id]: the 0-based index of id in Entries.
Lookup(pt, id) == (CHOOSE n \in 1..Len(pt.Entries) : pt.Entries[n].ID = id) - 1

\* Get(id): the power, 0 standing for "not in the table".
PtPower(pt, id) == IF PtHas(pt, id) THEN pt.Entries[Lookup(pt, id) + 1].Power ELSE 0

PtPubKey(pt, id) == IF PtHas(pt, id) THEN pt.Entries[Lookup(pt, id) + 1].PubKey ELSE 0

PtValidate(pt) ==
    /\ \A n \in 1..Len(pt.Entries) : pt.Entries[n].Power > 0
    /\ \A n, m \in 1..Len(pt.Entries) : n # m => pt.Entries[n].ID # pt.Entries[m].ID
    /\ \A n \in 1..(Len(pt.Entries) - 1) :
          \/ pt.Entries[n].Power > pt.Entries[n + 1].Power
          \/ /\ pt.Entries[n].Power = pt.Entries[n + 1].Power
             /\ pt.Entries[n].ID < pt.Entries[n + 1].ID

Entry(id, power) == [ID |-> id, Power |-> power, PubKey |-> PubKeyOf(id)]

-----------------------------------------------------------------------------
(* The host's signature scheme: a signature is the pair of the signing key *)
(* and the signed bytes, so it verifies under that key and those bytes     *)
(* only.  An aggregate is the set of the signatures it was built from.     *)

NetworkName == "f3"

NilSig == [k |-> 0, m |-> <<>>]

Sign(pubKey, msg) == [k |-> pubKey, m |-> msg]

Verify(pubKey, msg, sig) == sig = [k |-> pubKey, m |-> msg]

\* sigs: a sequence of signatures
Aggregate(sigs) == {sigs[n] : n \in 1..Len(sigs)}

\* signers: a sequence of public keys
VerifyAggregate(payload, aggSig, signers) ==
    aggSig = {[k |-> signers[n], m |-> payload] : n \in 1..Len(signers)}

MkPayload(instance, round, step, value) ==
    [Instance |-> instance, Round |-> round, Step |-> step, Value |-> value]

MarshalForSigning(p) == <<"GPBFT", NetworkName, p.Instance, p.Round, p.Step, p.Value>>

vrfSerializeSigInput(beacon, instance, round) ==
    <<"VRF", NetworkName, beacon, instance, round>>

MakeTicket(beacon, instance, round, source) ==
    Sign(source, vrfSerializeSigInput(beacon, instance, round))

VerifyTicket(beacon, instance, round, source, ticket) ==
    Verify(source, vrfSerializeSigInput(beacon, instance, round), ticket)

\* An absent justification is the empty sequence, a present one <<j>>.
NoJustification == <<>>

MkJustification(vote, signers, signature) ==
    <<[Vote |-> vote, Signers |-> signers, Signature |-> signature]>>

MkMessage(sender, vote, signature, ticket, justification) ==
    [Sender |-> sender, Vote |-> vote, Signature |-> signature,
     Ticket |-> ticket, Justification |-> justification]

-----------------------------------------------------------------------------
(* Quorum thresholds *)

hasStrongQuorumGE(p, total) == p >= (total * 2) \div 3

hasStrongQuorum(p, total) == p > (total * 2) \div 3

hasWeakQuorum(p, total) == p > total \div 3

-----------------------------------------------------------------------------
(* quorumState *)

newQuorumState ==
    [senders |-> {}, sendersTotalPower |-> 0,
     chainSupport |-> EmptyMap, receivedJustification |-> EmptyMap]

\* receiveSender without the check that the sender was seen before.
receiveSenderNoDedup(qs, pt, sender) ==
    [q |-> [qs EXCEPT !.senders = @ \cup {sender},
                      !.sendersTotalPower = @ + PtPower(pt, sender)],
     power |-> PtPower(pt, sender), ok |-> TRUE]

receiveSender(qs, pt, sender) ==
    IF sender \in qs.senders
    THEN [q |-> qs, power |-> 0, ok |-> FALSE]
    ELSE [q |-> [qs EXCEPT !.senders = @ \cup {sender},
                           !.sendersTotalPower = @ + PtPower(pt, sender)],
          power |-> PtPower(pt, sender), ok |-> TRUE]

\* The panic "duplicate message should have been dropped" of receiveInner.
receiveInnerPanics(qs, sender, value) ==
    /\ Key(value) \in DOMAIN qs.chainSupport
    /\ sender \in DOMAIN qs.chainSupport[Key(value)].signatures
    /\ qs.chainSupport[Key(value)].signatures[sender] # NilSig

receiveInner(qs, pt, sender, value, power, signature) ==
    LET key == Key(value)
        candidate == IF key \in DOMAIN qs.chainSupport
                     THEN qs.chainSupport[key]
                     ELSE [chain |-> value, power |-> 0, signatures |-> EmptyMap,
                           hasStrongQuorum |-> FALSE, hasWeakQuorum |-> FALSE]
        newPower == candidate.power + power
    IN  [qs EXCEPT !.chainSupport = MapPut(@, key,
            [chain |-> candidate.chain,
             power |-> newPower,
             signatures |-> MapPut(candidate.signatures, sender, signature),
             hasStrongQuorum |-> hasStrongQuorum(newPower, pt.Total),
             hasWeakQuorum |-> hasWeakQuorum(newPower, pt.Total)])]

Receive(qs, pt, sender, value, signature) ==
    LET r == receiveSender(qs, pt, sender)
    IN  IF ~r.ok THEN qs
        ELSE receiveInner(r.q, pt, sender, value, r.power, signature)

RECURSIVE receivePrefixes(_, _, _, _, _, _)
receivePrefixes(qs, pt, sender, values, power, j) ==
    IF j >= Len(Suffix(values)) THEN qs
    ELSE receivePrefixes(
            receiveInner(qs, pt, sender, Prefix(values, j + 1), power, NilSig),
            pt, sender, values, power, j + 1)

ReceiveEachPrefix(qs, pt, sender, values) ==
    LET r == receiveSender(qs, pt, sender)
    IN  IF ~r.ok THEN qs
        ELSE receivePrefixes(r.q, pt, sender, values, r.power, 0)

\* justification: a present justification <<j>>
\* ReceiveJustification that stores nothing.
ReceiveJustificationDropped(qs, value, justification) == qs

ReceiveJustification(qs, value, justification) ==
    IF Key(value) \in DOMAIN qs.receivedJustification THEN qs
    ELSE [qs EXCEPT !.receivedJustification = MapPut(@, Key(value), justification)]

ListAllValues(qs) == {qs.chainSupport[k].chain : k \in DOMAIN qs.chainSupport}

ReceivedFromStrongQuorum(qs, pt) == hasStrongQuorum(qs.sendersTotalPower, pt.Total)

HasStrongQuorumFor(qs, key) ==
    key \in DOMAIN qs.chainSupport /\ qs.chainSupport[key].hasStrongQuorum

HasWeakQuorumFor(qs, key) ==
    key \in DOMAIN qs.chainSupport /\ qs.chainSupport[key].hasWeakQuorum

\* The values whose support has the strong quorum flag.
StrongQuorumValues(qs) ==
    {qs.chainSupport[k].chain : k \in {x \in DOMAIN qs.chainSupport :
                                          qs.chainSupport[x].hasStrongQuorum}}

\* sort.Ints of a set of integers
RECURSIVE SortInts(_)
SortInts(S) ==
    IF S = {} THEN <<>>
    ELSE LET m == CHOOSE x \in S : \A y \in S : x <= y
         IN  <<m>> \o SortInts(S \ {m})

noQuorumResult == [ok |-> FALSE, Signers |-> <<>>, PubKeys |-> <<>>, Signatures |-> <<>>]

\* FindStrongQuorumFor that returns every supporter of the value.
FindStrongQuorumForAll(qs, pt, key) ==
    IF ~HasStrongQuorumFor(qs, key) THEN noQuorumResult
    ELSE
      LET support == qs.chainSupport[key]
          signers == SortInts({Lookup(pt, id) : id \in DOMAIN support.signatures})
      IN  [ok |-> TRUE,
           Signers |-> signers,
           PubKeys |-> [x \in 1..Len(signers) |-> pt.Entries[signers[x] + 1].PubKey],
           Signatures |-> [x \in 1..Len(signers) |->
                             support.signatures[pt.Entries[signers[x] + 1].ID]]]

FindStrongQuorumFor(qs, pt, key) ==
    IF ~HasStrongQuorumFor(qs, key) THEN noQuorumResult
    ELSE
      LET support == qs.chainSupport[key]
          signers == SortInts({Lookup(pt, id) : id \in DOMAIN support.signatures})
          Acc[n \in 0..Len(signers)] ==
              IF n = 0 THEN 0 ELSE Acc[n - 1] + pt.Entries[signers[n] + 1].Power
          hits == {n \in 1..Len(signers) : hasStrongQuorum(Acc[n], pt.Total)}
      IN  IF hits = {} THEN noQuorumResult
          ELSE LET n == CHOOSE x \in hits : \A y \in hits : x <= y
               IN  [ok |-> TRUE,
                    Signers |-> SubSeq(signers, 1, n),
                    PubKeys |-> [x \in 1..n |-> pt.Entries[signers[x] + 1].PubKey],
                    Signatures |-> [x \in 1..n |->
                                      support.signatures[pt.Entries[signers[x] + 1].ID]]]

\* QuorumResult.SignersBitfield: the set of the signers' indices
SignersBitfield(quorum) == {quorum.Signers[n] : n \in 1..Len(quorum.Signers)}

\* The panic of ListStrongQuorumValues: two strong quorum values of one length.
ListStrongQuorumValuesPanics(qs) ==
    \E v, w \in StrongQuorumValues(qs) : v # w /\ Len(v) = Len(w)

\* The strong quorum values in descending length (no two of one length).
RECURSIVE sortByLengthDesc(_)
sortByLengthDesc(S) ==
    IF S = {} THEN <<>>
    ELSE LET m == CHOOSE x \in S : \A y \in S : Len(x) >= Len(y)
         IN  <<m>> \o sortByLengthDesc(S \ {m})

ListStrongQuorumValues(qs) == sortByLengthDesc(StrongQuorumValues(qs))

\* The panic of FindStrongQuorumValue: "multiple chains with strong quorum".
FindStrongQuorumValuePanics(qs) == Cardinality(StrongQuorumValues(qs)) > 1

FindStrongQuorumValue(qs) ==
    IF StrongQuorumValues(qs) = {}
    THEN [found |-> FALSE, value |-> Bottom]
    ELSE [found |-> TRUE, value |-> CHOOSE v \in StrongQuorumValues(qs) : TRUE]

-----------------------------------------------------------------------------
(* instance.validateMessage.  The instance is read through the fields      *)
(* instanceID, powerTable, beacon and input only.  The answer is "ok" or   *)
(* the reason of the rejection.                                            *)

\* uint64 subtraction
SubU64(a, b) == (a - b) % (MaxUint64 + 1)

needsJustification(msg) ==
    ~ \/ msg.Vote.Step = QUALITY_PHASE
      \/ (msg.Vote.Step = PREPARE_PHASE /\ msg.Vote.Round = 0)
      \/ (msg.Vote.Step = COMMIT_PHASE /\ IsZero(msg.Vote.Value))

\* The expectations map: message phase -> justification phase -> (round, value).
expectations(msg) ==
    LET prev == [Round |-> SubU64(msg.Vote.Round, 1), Value |-> msg.Vote.Value]
        prevBottom == [Round |-> SubU64(msg.Vote.Round, 1), Value |-> Bottom]
    IN  CASE msg.Vote.Step = CONVERGE_PHASE ->
                (COMMIT_PHASE :> prevBottom) @@ (PREPARE_PHASE :> prev)
          [] msg.Vote.Step = PREPARE_PHASE ->
                (COMMIT_PHASE :> prevBottom) @@ (PREPARE_PHASE :> prev)
          [] msg.Vote.Step = COMMIT_PHASE ->
                (PREPARE_PHASE :> [Round |-> msg.Vote.Round, Value |-> msg.Vote.Value])
          [] msg.Vote.Step = DECIDE_PHASE ->
                (COMMIT_PHASE :> [Round |-> MaxUint64, Value |-> msg.Vote.Value])
          [] OTHER -> EmptyMap

\* The justification's power and aggregate signature (the tail of validateMessage).
validateJustificationSigners(i, j) ==
    LET bits == SortInts(j.Signers)
        bad == {b \in j.Signers : b >= Len(i.powerTable.Entries)}
        Power[n \in 0..Len(bits)] ==
            IF n = 0 THEN 0 ELSE Power[n - 1] + i.powerTable.Entries[bits[n] + 1].Power
        signers == [n \in 1..Len(bits) |-> i.powerTable.Entries[bits[n] + 1].PubKey]
    IN  IF bad # {} THEN "invalid signer index"
        ELSE IF ~hasStrongQuorum(Power[Len(bits)], i.powerTable.Total)
        THEN "justification with insufficient power"
        ELSE IF ~VerifyAggregate(MarshalForSigning(j.Vote), j.Signature, signers)
        THEN "verification of the aggregate failed"
        ELSE "ok"

validateJustification(i, msg) ==
    IF needsJustification(msg) THEN
        IF msg.Justification = NoJustification THEN "no justification"
        ELSE LET j == msg.Justification[1] IN
        IF msg.Vote.Instance # j.Vote.Instance THEN "evidence from wrong instance"
        ELSE IF ~ChainValidate(j.Vote.Value) THEN "invalid justification vote value chain"
        ELSE IF DOMAIN expectations(msg) = {} THEN "unexpected phase for justification"
        ELSE IF j.Vote.Step \notin DOMAIN expectations(msg)
        THEN "justification with unexpected phase"
        ELSE LET expected == expectations(msg)[j.Vote.Step] IN
        IF j.Vote.Round # expected.Round /\ expected.Round # MaxUint64
        THEN "justification from wrong round"
        ELSE IF ~ChainEq(j.Vote.Value, expected.Value)
        THEN "justification for a different value"
        ELSE validateJustificationSigners(i, j)
    ELSE IF msg.Justification # NoJustification THEN "unexpected justification"
    ELSE "ok"

\* validatePhase without its round, value and ticket checks.
validatePhaseStepOnly(i, msg) ==
    IF msg.Vote.Step \in QUALITY_PHASE..DECIDE_PHASE THEN "ok" ELSE "unknown vote step"

validatePhase(i, msg) ==
    CASE msg.Vote.Step = INITIAL_PHASE -> "invalid vote step"
      [] msg.Vote.Step = QUALITY_PHASE ->
            IF msg.Vote.Round # 0 THEN "unexpected round for quality phase"
            ELSE IF IsZero(msg.Vote.Value) THEN "unexpected zero value for quality phase"
            ELSE "ok"
      [] msg.Vote.Step = CONVERGE_PHASE ->
            IF msg.Vote.Round = 0 THEN "unexpected round 0 for converge phase"
            ELSE IF IsZero(msg.Vote.Value) THEN "unexpected zero value for converge phase"
            ELSE IF ~VerifyTicket(i.beacon, i.instanceID, msg.Vote.Round,
                                  PtPubKey(i.powerTable, msg.Sender), msg.Ticket)
            THEN "failed to verify ticket"
            ELSE "ok"
      [] msg.Vote.Step = DECIDE_PHASE ->
            IF msg.Vote.Round # 0 THEN "unexpected non-zero round for decide phase"
            ELSE IF IsZero(msg.Vote.Value) THEN "unexpected zero value for decide phase"
            ELSE "ok"
      [] msg.Vote.Step \in {PREPARE_PHASE, COMMIT_PHASE} -> "ok"
      [] OTHER -> "unknown vote step"

validateMessage(i, msg) ==
    IF msg.Vote.Instance # i.instanceID THEN "message for wrong instance"
    ELSE IF PtPower(i.powerTable, msg.Sender) = 0
    THEN "sender with zero power or not in power table"
    ELSE IF ~ChainValidate(msg.Vote.Value) THEN "invalid message vote value chain"
    ELSE IF ~(IsZero(msg.Vote.Value) \/ HasBase(msg.Vote.Value, Base(i.input)))
    THEN "unexpected base"
    ELSE TheOne({
           IF phase # "ok" THEN phase
           ELSE IF ~Verify(PtPubKey(i.powerTable, msg.Sender),
                           MarshalForSigning(msg.Vote), msg.Signature)
           THEN "invalid signature"
           ELSE validateJustification(i, msg) :
           phase \in {validatePhase(i, msg)}})

\* The package's ValidateMessage against the committee of the message's
\* instance: the instance's input is not known to it.
ValidateAgainstCommittee(power, beacon, msg) ==
    validateMessage([instanceID |-> msg.Vote.Instance, powerTable |-> power,
                     beacon |-> beacon,
                     input |-> IF IsZero(msg.Vote.Value) THEN <<1>>
                               ELSE BaseChain(msg.Vote.Value)],
                    msg)

-----------------------------------------------------------------------------
(* convergeState *)

newConvergeState == [senders |-> {}, values |-> EmptyMap, tickets |-> EmptyMap]

\* The error "bottom cannot be justified for CONVERGE" of convergeState.Receive.
convergeReceiveFails(cs, sender, value) == sender \notin cs.senders /\ IsZero(value)

convergeReceive(cs, sender, value, ticket, justification) ==
    IF sender \in cs.senders THEN cs
    ELSE IF IsZero(value) THEN [cs EXCEPT !.senders = @ \cup {sender}]
    ELSE IF Key(value) \in DOMAIN cs.values
    THEN [cs EXCEPT !.senders = @ \cup {sender}]
    ELSE [cs EXCEPT !.senders = @ \cup {sender},
                    !.values = MapPut(@, Key(value),
                                 [Chain |-> value, Justification |-> justification]),
                    !.tickets = MapPut(@, Key(value),
                                 <<[Sender |-> sender, Ticket |-> ticket]>>)]

\* big.Int.SetBytes of a ticket: the host's signature bytes read as a number.
TicketAsInt(ticket) ==
    IF ticket = NilSig THEN 0
    ELSE ((ticket.k * 5 + ticket.m[5] * 3 + ticket.m[4] * 7) % 11) + 1

\* The largest weighted ticket of a value of the converge state.
maxWeightedTicket(cs, pt, key) ==
    LET ws == {TicketAsInt(cs.tickets[key][n].Ticket) * PtPower(pt, cs.tickets[key][n].Sender) :
                  n \in 1..Len(cs.tickets[key])}
    IN  CHOOSE w \in ws : \A x \in ws : x <= w

\* The values FindMaxTicketProposal may return: the map is walked in an order
\* that is not defined and the first of the largest tickets wins.
MaxTicketProposals(cs, pt) ==
    {cs.values[k] : k \in {x \in DOMAIN cs.values :
        \A y \in DOMAIN cs.values :
            maxWeightedTicket(cs, pt, y) <= maxWeightedTicket(cs, pt, x)}}

noConvergeValue == [Chain |-> Bottom, Justification |-> NoJustification]

\* oracle: the chain the map walk meets first among equal tickets.
FindMaxTicketProposal(cs, pt, oracle) ==
    LET best == MaxTicketProposals(cs, pt)
    IN  IF best = {} THEN noConvergeValue
        ELSE IF \E v \in best : v.Chain = oracle
        THEN CHOOSE v \in best : v.Chain = oracle
        ELSE CHOOSE v \in best : TRUE

FindProposalFor(cs, chain) ==
    IF Key(chain) \in DOMAIN cs.values
    THEN [ok |-> TRUE, value |-> cs.values[Key(chain)]]
    ELSE [ok |-> FALSE, value |-> noConvergeValue]

\* findFirstPrefixOf that never finds a prefix.
findFirstPrefixOfNone(preferred, candidates) == BaseChain(preferred)

findFirstPrefixOf(preferred, candidates) ==
    LET hits == {n \in 1..Len(candidates) : HasPrefix(preferred, candidates[n])}
    IN  IF hits = {} THEN BaseChain(preferred)
        ELSE candidates[CHOOSE n \in hits : \A m \in hits : n <= m]

-----------------------------------------------------------------------------
(* instance *)

newRoundState ==
    [converged |-> newConvergeState, prepared |-> newQuorumState,
     committed |-> newQuorumState]

\* Model fields next to the program's: out (what was handed to
\* host.Broadcast, in order), alarmSet (host.SetAlarm(phaseTimeout) was called
\* in the running top-level call), err (the error the running call returns)
\* and panic (the panic that unwound it).
newInstance(participantID, instanceID, input, powerTable, beacon) ==
    [participantID |-> participantID,
     instanceID |-> instanceID,
     input |-> input,
     powerTable |-> powerTable,
     beacon |-> beacon,
     round |-> 0,
     phase |-> INITIAL_PHASE,
     phaseTimeout |-> PENDING,
     proposal |-> input,
     value |-> Bottom,
     candidates |-> {BaseChain(input)},
     terminationValue |-> NoJustification,
     inbox |-> <<>>,
     quality |-> newQuorumState,
     rounds |-> (0 :> newRoundState),
     decision |-> newQuorumState,
     out |-> <<>>,
     alarmSet |-> FALSE,
     err |-> "",
     panic |-> ""]

Failed(i) == i.err # "" \/ i.panic # ""

Panic(i, why) == [i EXCEPT !.panic = why]

Error(i, why) == [i EXCEPT !.err = why]

\* i.roundState(r); the entry of a round that is only read is not stored.
roundState(i, r) == IF r \in DOMAIN i.rounds THEN i.rounds[r] ELSE newRoundState

isCandidate(i, c) == c \in i.candidates

terminated(i) == i.phase = TERMINATED_PHASE

alarmAfterSynchrony(i) == [i EXCEPT !.phaseTimeout = PENDING, !.alarmSet = TRUE]

timeoutExpired(i) == i.phaseTimeout = EXPIRED

broadcast(i, round, step, value, ticket, justification) ==
    LET p == MkPayload(i.instanceID, round, step, value)
        sig == Sign(PtPubKey(i.powerTable, i.participantID), MarshalForSigning(p))
        gmsg == MkMessage(i.participantID, p, sig, ticket, justification)
    IN  [i EXCEPT !.out = Append(@, gmsg), !.inbox = Append(@, gmsg)]

buildJustification(i, quorum, round, phase, value) ==
    MkJustification(MkPayload(i.instanceID, round, phase, value),
                    SignersBitfield(quorum), Aggregate(quorum.Signatures))

beginQuality(i) ==
    IF i.phase # INITIAL_PHASE THEN Error(i, "cannot transition to QUALITY")
    ELSE broadcast(alarmAfterSynchrony([i EXCEPT !.phase = QUALITY_PHASE]),
                   i.round, QUALITY_PHASE, i.input, NilSig, NoJustification)

beginPrepare(i, justification) ==
    broadcast(alarmAfterSynchrony([i EXCEPT !.phase = PREPARE_PHASE]),
              i.round, PREPARE_PHASE, i.value, NilSig, justification)

tryQuality(i) ==
    IF i.phase # QUALITY_PHASE THEN Error(i, "unexpected phase, expected QUALITY")
    ELSE
      LET foundQuorum == HasStrongQuorumFor(i.quality, Key(i.proposal))
          expired == timeoutExpired(i)
      IN  IF ~foundQuorum /\ expired /\ ListStrongQuorumValuesPanics(i.quality)
          THEN Panic(i, "multiple chains of one length with strong quorum")
          ELSE IF ~(foundQuorum \/ expired) THEN i
          ELSE TheOne({
                 beginPrepare([i EXCEPT !.proposal = proposal,
                                        !.candidates = @ \cup
                                            {Prefix(proposal, l) : l \in 1..(Len(proposal) - 1)},
                                        !.value = proposal],
                              NoJustification) :
                 proposal \in {IF foundQuorum THEN i.proposal
                               ELSE findFirstPrefixOf(i.proposal,
                                                      ListStrongQuorumValues(i.quality))}})

beginConverge(i) ==
    LET i1 == alarmAfterSynchrony([i EXCEPT !.phase = CONVERGE_PHASE])
        prev == roundState(i, i.round - 1)
        ticket == MakeTicket(i.beacon, i.instanceID, i.round,
                             PtPubKey(i.powerTable, i.participantID))
    IN  TheOne({
          IF ~quorum.ok /\ Key(i.proposal) \notin DOMAIN prev.committed.receivedJustification
          THEN Panic(i1, "beginConverge called but no justification for proposal")
          ELSE broadcast(i1, i.round, CONVERGE_PHASE, i.proposal, ticket,
                         IF quorum.ok
                         THEN buildJustification(i, quorum, i.round - 1, COMMIT_PHASE, Bottom)
                         ELSE prev.committed.receivedJustification[Key(i.proposal)]) :
          quorum \in {FindStrongQuorumFor(prev.committed, i.powerTable, Key(Bottom))}})

\* tryConverge that also ends the phase once every participant was heard.
tryConvergeOnAll(i, oracle) ==
    IF i.phase # CONVERGE_PHASE THEN Error(i, "unexpected phase, expected CONVERGE")
    ELSE IF ~timeoutExpired(i) /\
            roundState(i, i.round).converged.senders #
               {i.powerTable.Entries[n].ID : n \in 1..Len(i.powerTable.Entries)}
    THEN i
    ELSE
      LET possibleDecisionLastRound ==
              ~HasStrongQuorumFor(roundState(i, i.round - 1).committed, Key(Bottom))
          converged == roundState(i, i.round).converged
      IN  TheOne({
            IF IsZero(winner.Chain) THEN Error(i, "no values at CONVERGE")
            ELSE IF ~isCandidate(i, winner.Chain) /\ winner.Justification = NoJustification
            THEN Panic(i, "nil justification of the CONVERGE winner")
            ELSE
              LET sway == /\ ~isCandidate(i, winner.Chain)
                          /\ winner.Justification[1].Vote.Step = PREPARE_PHASE
                          /\ possibleDecisionLastRound
                  i1 == IF sway THEN [i EXCEPT !.candidates = @ \cup {winner.Chain}] ELSE i
                  accept == isCandidate(i, winner.Chain) \/ sway
                  fallback == FindProposalFor(converged, i.proposal)
              IN  IF ~accept /\ ~fallback.ok
                  THEN Panic(i1, "own proposal not found at CONVERGE")
                  ELSE beginPrepare(
                          IF accept
                          THEN [i1 EXCEPT !.proposal = winner.Chain, !.value = winner.Chain]
                          ELSE [i1 EXCEPT !.value = i.proposal],
                          IF accept THEN winner.Justification
                          ELSE fallback.value.Justification) :
            winner \in {FindMaxTicketProposal(converged, i.powerTable, oracle)}})

\* tryConverge that sways whatever the COMMIT tracker of the last round holds.
tryConvergeSwayAlways(i, oracle) ==
    IF i.phase # CONVERGE_PHASE THEN Error(i, "unexpected phase, expected CONVERGE")
    ELSE IF ~timeoutExpired(i) THEN i
    ELSE
      LET possibleDecisionLastRound ==
              ~HasStrongQuorumFor(roundState(i, i.round - 1).committed, Key(Bottom))
          converged == roundState(i, i.round).converged
      IN  TheOne({
            IF IsZero(winner.Chain) THEN Error(i, "no values at CONVERGE")
            ELSE IF ~isCandidate(i, winner.Chain) /\ winner.Justification = NoJustification
            THEN Panic(i, "nil justification of the CONVERGE winner")
            ELSE
              LET sway == /\ ~isCandidate(i, winner.Chain)
                          /\ winner.Justification[1].Vote.Step = PREPARE_PHASE
                  i1 == IF sway THEN [i EXCEPT !.candidates = @ \cup {winner.Chain}] ELSE i
                  accept == isCandidate(i, winner.Chain) \/ sway
                  fallback == FindProposalFor(converged, i.proposal)
              IN  IF ~accept /\ ~fallback.ok
                  THEN Panic(i1, "own proposal not found at CONVERGE")
                  ELSE beginPrepare(
                          IF accept
                          THEN [i1 EXCEPT !.proposal = winner.Chain, !.value = winner.Chain]
                          ELSE [i1 EXCEPT !.value = i.proposal],
                          IF accept THEN winner.Justification
                          ELSE fallback.value.Justification) :
            winner \in {FindMaxTicketProposal(converged, i.powerTable, oracle)}})

\* tryConverge that sends the justification of the winner after falling back.
tryConvergeWinnerJustification(i, oracle) ==
    IF i.phase # CONVERGE_PHASE THEN Error(i, "unexpected phase, expected CONVERGE")
    ELSE IF ~timeoutExpired(i) THEN i
    ELSE
      LET possibleDecisionLastRound ==
              ~HasStrongQuorumFor(roundState(i, i.round - 1).committed, Key(Bottom))
          converged == roundState(i, i.round).converged
      IN  TheOne({
            IF IsZero(winner.Chain) THEN Error(i, "no values at CONVERGE")
            ELSE IF ~isCandidate(i, winner.Chain) /\ winner.Justification = NoJustification
            THEN Panic(i, "nil justification of the CONVERGE winner")
            ELSE
              LET sway == /\ ~isCandidate(i, winner.Chain)
                          /\ winner.Justification[1].Vote.Step = PREPARE_PHASE
                          /\ possibleDecisionLastRound
                  i1 == IF sway THEN [i EXCEPT !.candidates = @ \cup {winner.Chain}] ELSE i
                  accept == isCandidate(i, winner.Chain) \/ sway
                  fallback == FindProposalFor(converged, i.proposal)
              IN  IF ~accept /\ ~fallback.ok
                  THEN Panic(i1, "own proposal not found at CONVERGE")
                  ELSE beginPrepare(
                          IF accept
                          THEN [i1 EXCEPT !.proposal = winner.Chain, !.value = winner.Chain]
                          ELSE [i1 EXCEPT !.value = i.proposal],
                          winner.Justification) :
            winner \in {FindMaxTicketProposal(converged, i.powerTable, oracle)}})

tryConverge(i, oracle) ==
    IF i.phase # CONVERGE_PHASE THEN Error(i, "unexpected phase, expected CONVERGE")
    ELSE IF ~timeoutExpired(i) THEN i
    ELSE
      LET possibleDecisionLastRound ==
              ~HasStrongQuorumFor(roundState(i, i.round - 1).committed, Key(Bottom))
          converged == roundState(i, i.round).converged
      IN  TheOne({
            IF IsZero(winner.Chain) THEN Error(i, "no values at CONVERGE")
            ELSE IF ~isCandidate(i, winner.Chain) /\ winner.Justification = NoJustification
            THEN Panic(i, "nil justification of the CONVERGE winner")
            ELSE
              LET sway == /\ ~isCandidate(i, winner.Chain)
                          /\ winner.Justification[1].Vote.Step = PREPARE_PHASE
                          /\ possibleDecisionLastRound
                  i1 == IF sway THEN [i EXCEPT !.candidates = @ \cup {winner.Chain}] ELSE i
                  accept == isCandidate(i, winner.Chain) \/ sway
                  fallback == FindProposalFor(converged, i.proposal)
              IN  IF ~accept /\ ~fallback.ok
                  THEN Panic(i1, "own proposal not found at CONVERGE")
                  ELSE beginPrepare(
                          IF accept
                          THEN [i1 EXCEPT !.proposal = winner.Chain, !.value = winner.Chain]
                          ELSE [i1 EXCEPT !.value = i.proposal],
                          IF accept THEN winner.Justification
                          ELSE fallback.value.Justification) :
            winner \in {FindMaxTicketProposal(converged, i.powerTable, oracle)}})

beginCommit(i) ==
    LET i1 == alarmAfterSynchrony([i EXCEPT !.phase = COMMIT_PHASE])
    IN  TheOne({
          IF ~IsZero(i.value) /\ ~quorum.ok
          THEN Panic(i1, "beginCommit with no strong quorum for non-bottom value")
          ELSE broadcast(i1, i.round, COMMIT_PHASE, i.value, NilSig,
                         IF IsZero(i.value) THEN NoJustification
                         ELSE buildJustification(i, quorum, i.round, PREPARE_PHASE, i.value)) :
          quorum \in {FindStrongQuorumFor(roundState(i, i.round).prepared,
                                          i.powerTable, Key(i.value))}})

\* tryPrepare that looks at the timeout before the quorum.
tryPrepareTimeoutFirst(i) ==
    IF i.phase # PREPARE_PHASE THEN Error(i, "unexpected phase, expected PREPARE")
    ELSE
      LET prepared == roundState(i, i.round).prepared
          foundQuorum == HasStrongQuorumFor(prepared, Key(i.proposal))
          timedOut == timeoutExpired(i) /\ ReceivedFromStrongQuorum(prepared, i.powerTable)
      IN  IF foundQuorum \/ timedOut
          THEN beginCommit([i EXCEPT !.value = IF timedOut THEN Bottom ELSE i.proposal])
          ELSE i

tryPrepare(i) ==
    IF i.phase # PREPARE_PHASE THEN Error(i, "unexpected phase, expected PREPARE")
    ELSE
      LET prepared == roundState(i, i.round).prepared
          foundQuorum == HasStrongQuorumFor(prepared, Key(i.proposal))
          timedOut == timeoutExpired(i) /\ ReceivedFromStrongQuorum(prepared, i.powerTable)
      IN  IF foundQuorum \/ timedOut
          THEN beginCommit([i EXCEPT !.value = IF foundQuorum THEN i.proposal ELSE Bottom])
          ELSE i

beginDecide(i, round) ==
    TheOne({
      IF ~quorum.ok
      THEN Panic([i EXCEPT !.phase = DECIDE_PHASE],
                 "beginDecide with no strong quorum for value")
      ELSE broadcast([i EXCEPT !.phase = DECIDE_PHASE], 0, DECIDE_PHASE, i.value, NilSig,
                     buildJustification(i, quorum, round, COMMIT_PHASE, i.value)) :
      quorum \in {FindStrongQuorumFor(roundState(i, round).committed,
                                      i.powerTable, Key(i.value))}})

beginNextRound(i) == beginConverge([i EXCEPT !.round = @ + 1])

\* The non-bottom values of the COMMIT tracker: the walk of ListAllValues
\* stops at the first of them, in an order that is not defined.
swayValues(committed) == {v \in ListAllValues(committed) : ~IsZero(v)}

\* tryCommit that is closed to the COMMIT messages of other rounds.
tryCommitCurrentRound(i, round, oracle) ==
    LET committed == roundState(i, round).committed
        timedOut == timeoutExpired(i) /\ ReceivedFromStrongQuorum(committed, i.powerTable)
    IN  IF i.round # round \/ i.phase # COMMIT_PHASE THEN i
        ELSE TheOne({
               IF r.found /\ ~IsZero(r.value)
               THEN beginDecide([i EXCEPT !.value = r.value], round)
               ELSE IF timedOut
               THEN beginNextRound(
                       IF r.found \/ swayValues(committed) = {} THEN i
                       ELSE LET v == IF oracle \in swayValues(committed) THEN oracle
                                     ELSE CHOOSE x \in swayValues(committed) : TRUE
                            IN  [i EXCEPT !.candidates = @ \cup {v}, !.proposal = v])
               ELSE i :
               r \in {FindStrongQuorumValue(committed)}})

\* tryCommit that goes to the next round from any phase.
tryCommitAnyPhase(i, round, oracle) ==
    LET committed == roundState(i, round).committed
        timedOut == timeoutExpired(i) /\ ReceivedFromStrongQuorum(committed, i.powerTable)
    IN  IF FindStrongQuorumValuePanics(committed)
        THEN Panic(i, "multiple chains with strong quorum")
        ELSE TheOne({
               IF r.found /\ ~IsZero(r.value)
               THEN beginDecide([i EXCEPT !.value = r.value], round)
               ELSE IF i.round = round /\ timedOut
               THEN beginNextRound(
                       IF r.found \/ swayValues(committed) = {} THEN i
                       ELSE LET v == IF oracle \in swayValues(committed) THEN oracle
                                     ELSE CHOOSE x \in swayValues(committed) : TRUE
                            IN  [i EXCEPT !.candidates = @ \cup {v}, !.proposal = v])
               ELSE i :
               r \in {FindStrongQuorumValue(committed)}})

\* tryCommit that does not wait for the timeout.
tryCommitNoTimeout(i, round, oracle) ==
    LET committed == roundState(i, round).committed
        timedOut == ReceivedFromStrongQuorum(committed, i.powerTable)
    IN  IF FindStrongQuorumValuePanics(committed)
        THEN Panic(i, "multiple chains with strong quorum")
        ELSE TheOne({
               IF r.found /\ ~IsZero(r.value)
               THEN beginDecide([i EXCEPT !.value = r.value], round)
               ELSE IF i.round = round /\ i.phase = COMMIT_PHASE /\ timedOut
               THEN beginNextRound(
                       IF r.found \/ swayValues(committed) = {} THEN i
                       ELSE LET v == IF oracle \in swayValues(committed) THEN oracle
                                     ELSE CHOOSE x \in swayValues(committed) : TRUE
                            IN  [i EXCEPT !.candidates = @ \cup {v}, !.proposal = v])
               ELSE i :
               r \in {FindStrongQuorumValue(committed)}})

\* tryCommit that sways to a value without making it a candidate.
tryCommitSwayNoCandidate(i, round, oracle) ==
    LET committed == roundState(i, round).committed
        timedOut == timeoutExpired(i) /\ ReceivedFromStrongQuorum(committed, i.powerTable)
    IN  IF FindStrongQuorumValuePanics(committed)
        THEN Panic(i, "multiple chains with strong quorum")
        ELSE TheOne({
               IF r.found /\ ~IsZero(r.value)
               THEN beginDecide([i EXCEPT !.value = r.value], round)
               ELSE IF i.round = round /\ i.phase = COMMIT_PHASE /\ timedOut
               THEN beginNextRound(
                       IF r.found \/ swayValues(committed) = {} THEN i
                       ELSE LET v == IF oracle \in swayValues(committed) THEN oracle
                                     ELSE CHOOSE x \in swayValues(committed) : TRUE
                            IN  [i EXCEPT !.proposal = v])
               ELSE i :
               r \in {FindStrongQuorumValue(committed)}})

tryCommit(i, round, oracle) ==
    LET committed == roundState(i, round).committed
        timedOut == timeoutExpired(i) /\ ReceivedFromStrongQuorum(committed, i.powerTable)
    IN  IF FindStrongQuorumValuePanics(committed)
        THEN Panic(i, "multiple chains with strong quorum")
        ELSE TheOne({
               IF r.found /\ ~IsZero(r.value)
               THEN beginDecide([i EXCEPT !.value = r.value], round)
               ELSE IF i.round = round /\ i.phase = COMMIT_PHASE /\ timedOut
               THEN beginNextRound(
                       IF r.found \/ swayValues(committed) = {} THEN i
                       ELSE LET v == IF oracle \in swayValues(committed) THEN oracle
                                     ELSE CHOOSE x \in swayValues(committed) : TRUE
                            IN  [i EXCEPT !.candidates = @ \cup {v}, !.proposal = v])
               ELSE i :
               r \in {FindStrongQuorumValue(committed)}})

\* skipToDecide that leaves the proposal alone.
skipToDecideKeepProposal(i, value, justification) ==
    broadcast([i EXCEPT !.phase = DECIDE_PHASE, !.value = value],
              0, DECIDE_PHASE, value, NilSig, justification)

skipToDecide(i, value, justification) ==
    broadcast([i EXCEPT !.phase = DECIDE_PHASE, !.proposal = value, !.value = value],
              0, DECIDE_PHASE, value, NilSig, justification)

terminate(i, decision) ==
    [i EXCEPT !.phase = TERMINATED_PHASE,
              !.value = decision[1].Vote.Value,
              !.terminationValue = decision]

tryDecide(i) ==
    IF FindStrongQuorumValuePanics(i.decision)
    THEN Panic(i, "multiple chains with strong quorum")
    ELSE TheOne({
           IF ~r.found THEN i
           ELSE TheOne({
                  IF ~quorum.ok THEN Panic(i, "tryDecide with no strong quorum for value")
                  ELSE terminate(i, buildJustification(i, quorum, 0, DECIDE_PHASE, r.value)) :
                  quorum \in {FindStrongQuorumFor(i.decision, i.powerTable, Key(r.value))}}) :
           r \in {FindStrongQuorumValue(i.decision)}})

tryCompletePhase(i, oracle) ==
    CASE i.phase = QUALITY_PHASE -> tryQuality(i)
      [] i.phase = CONVERGE_PHASE -> tryConverge(i, oracle)
      [] i.phase = PREPARE_PHASE -> tryPrepare(i)
      [] i.phase = COMMIT_PHASE -> tryCommit(i, i.round, oracle)
      [] i.phase = DECIDE_PHASE -> tryDecide(i)
      [] i.phase = TERMINATED_PHASE -> i
      [] OTHER -> Error(i, "unexpected phase")

\* The switch of receiveOne: the message goes to the tracker of its step.
receiveStep(i, msg) ==
    LET round == roundState(i, msg.Vote.Round)
        put(rs) == [i EXCEPT !.rounds = MapPut(@, msg.Vote.Round, rs)]
    IN  CASE msg.Vote.Step = QUALITY_PHASE ->
              [i EXCEPT !.rounds = MapPut(@, msg.Vote.Round, round),
                        !.quality = ReceiveEachPrefix(@, i.powerTable, msg.Sender,
                                                      msg.Vote.Value)]
          [] msg.Vote.Step = CONVERGE_PHASE ->
              IF convergeReceiveFails(round.converged, msg.Sender, msg.Vote.Value)
              THEN Error(put([round EXCEPT !.converged.senders = @ \cup {msg.Sender}]),
                         "failed processing CONVERGE message")
              ELSE put([round EXCEPT !.converged =
                          convergeReceive(@, msg.Sender, msg.Vote.Value,
                                          msg.Ticket, msg.Justification)])
          [] msg.Vote.Step = PREPARE_PHASE ->
              put([round EXCEPT !.prepared =
                     Receive(@, i.powerTable, msg.Sender, msg.Vote.Value, msg.Signature)])
          [] msg.Vote.Step = COMMIT_PHASE ->
              IF ~IsZero(msg.Vote.Value) /\ msg.Justification = NoJustification
              THEN Panic(put([round EXCEPT !.committed =
                                Receive(@, i.powerTable, msg.Sender, msg.Vote.Value,
                                        msg.Signature)]),
                         "nil justification")
              ELSE put([round EXCEPT !.committed =
                          TheOne({IF IsZero(msg.Vote.Value) THEN qs
                                  ELSE ReceiveJustification(qs, msg.Vote.Value,
                                                            msg.Justification) :
                                  qs \in {Receive(@, i.powerTable, msg.Sender,
                                                  msg.Vote.Value, msg.Signature)}})])
          [] msg.Vote.Step = DECIDE_PHASE ->
              TheOne({tryDecide(IF i.phase # DECIDE_PHASE
                                THEN skipToDecide(i1, msg.Vote.Value, msg.Justification)
                                ELSE i1) :
                      i1 \in {[i EXCEPT !.rounds = MapPut(@, msg.Vote.Round, round),
                                        !.decision = Receive(@, i.powerTable, msg.Sender,
                                                             msg.Vote.Value, msg.Signature)]}})
          [] OTHER -> put(round)

\* The tracker the message goes to would panic in receiveInner.
receivePanics(i, msg) ==
    LET round == roundState(i, msg.Vote.Round)
        qs == CASE msg.Vote.Step = PREPARE_PHASE -> round.prepared
                [] msg.Vote.Step = COMMIT_PHASE -> round.committed
                [] msg.Vote.Step = DECIDE_PHASE -> i.decision
                [] OTHER -> newQuorumState
    IN  msg.Sender \notin qs.senders /\ receiveInnerPanics(qs, msg.Sender, msg.Vote.Value)

\* receiveOne that tries the COMMIT of the message's round in DECIDE as well.
receiveOneCommitInDecide(i, msg, oracle) ==
    IF i.phase = TERMINATED_PHASE THEN i
    ELSE IF receivePanics(i, msg)
    THEN Panic(i, "duplicate message should have been dropped")
    ELSE TheOne({IF Failed(i1) THEN i1
                 ELSE IF msg.Vote.Step = COMMIT_PHASE
                 THEN tryCommit(i1, msg.Vote.Round, oracle)
                 ELSE tryCompletePhase(i1, oracle) :
                 i1 \in {receiveStep(i, msg)}})

receiveOne(i, msg, oracle) ==
    IF i.phase = TERMINATED_PHASE THEN i
    ELSE IF receivePanics(i, msg)
    THEN Panic(i, "duplicate message should have been dropped")
    ELSE TheOne({IF Failed(i1) THEN i1
                 ELSE IF msg.Vote.Step = COMMIT_PHASE /\ i1.phase # DECIDE_PHASE
                 THEN tryCommit(i1, msg.Vote.Round, oracle)
                 ELSE tryCompletePhase(i1, oracle) :
                 i1 \in {receiveStep(i, msg)}})

\* The message being processed stays at the head of the inbox until processed.
RECURSIVE drainInbox(_, _)
drainInbox(i, oracle) ==
    IF Failed(i) \/ Len(i.inbox) = 0 THEN i
    ELSE TheOne({IF Failed(i1) THEN i1
                 ELSE drainInbox([i1 EXCEPT !.inbox = Tail(@)], oracle) :
                 i1 \in {receiveOne(i, i.inbox[1], oracle)}})

instanceStart(i, oracle) ==
    TheOne({IF Failed(i1) THEN i1 ELSE drainInbox(i1, oracle) : i1 \in {beginQuality(i)}})

\* Receive without the check of the inbox.
instanceReceiveNoInboxCheck(i, msg, oracle) ==
    IF terminated(i) THEN Error(i, "senders message after decision")
    ELSE drainInbox([i EXCEPT !.inbox = Append(@, msg)], oracle)

instanceReceive(i, msg, oracle) ==
    IF terminated(i) THEN Error(i, "senders message after decision")
    ELSE IF Len(i.inbox) > 0 THEN Error(i, "senders message while already processing inbox")
    ELSE drainInbox([i EXCEPT !.inbox = Append(@, msg)], oracle)

instanceReceiveAlarm(i, oracle) ==
    TheOne({IF Failed(i1) THEN i1 ELSE drainInbox(i1, oracle) :
            i1 \in {tryCompletePhase(i, oracle)}})

-----------------------------------------------------------------------------
(* messageQueue *)

newMessageQueue == EmptyMap

\* A message that needs no justification can be made up by any one sender.
isSpammable(msg) == msg.Justification = NoJustification

queueAdd(mq, maxRound, msg) ==
    LET inst == msg.Vote.Instance
        instanceQueue == IF inst \in DOMAIN mq THEN mq[inst] ELSE EmptyMap
        fromSender == IF msg.Sender \in DOMAIN instanceQueue
                      THEN instanceQueue[msg.Sender] ELSE <<>>
        mq1 == MapPut(mq, inst, instanceQueue)
    IN  IF msg.Vote.Round > maxRound /\ isSpammable(msg) THEN mq1
        ELSE IF \E n \in 1..Len(fromSender) :
                    /\ fromSender[n].Vote.Round = msg.Vote.Round
                    /\ fromSender[n].Vote.Step = msg.Vote.Step
        THEN mq1
        ELSE MapPut(mq, inst, MapPut(instanceQueue, msg.Sender, Append(fromSender, msg)))

\* The messages queued for the instance by round, then step; messages of one
\* round and step follow the order in which the map walk met their senders
\* (senderOrder: a sequence of the senders, not defined by the program).
RECURSIVE sortQueued(_, _)
sortQueued(S, senderOrder) ==
    IF S = {} THEN <<>>
    ELSE LET rank(m) == CHOOSE n \in 1..Len(senderOrder) : senderOrder[n] = m.Sender
             before(a, b) ==
                 \/ a.Vote.Round < b.Vote.Round
                 \/ a.Vote.Round = b.Vote.Round /\ a.Vote.Step < b.Vote.Step
                 \/ /\ a.Vote.Round = b.Vote.Round
                    /\ a.Vote.Step = b.Vote.Step
                    /\ rank(a) <= rank(b)
             first == CHOOSE a \in S : \A b \in S : before(a, b)
         IN  <<first>> \o sortQueued(S \ {first}, senderOrder)

queueDrain(mq, instance, senderOrder) ==
    IF instance \notin DOMAIN mq THEN <<>>
    ELSE sortQueued(UNION {{mq[instance][s][n] : n \in 1..Len(mq[instance][s])} :
                              s \in DOMAIN mq[instance]},
                    senderOrder)

queueDelete(mq, instance) == [x \in (DOMAIN mq) \ {instance} |-> mq[x]]

\* Every message of the queue.
queuedMessages(mq) ==
    UNION {UNION {{mq[inst][s][n] : n \in 1..Len(mq[inst][s])} : s \in DOMAIN mq[inst]} :
              inst \in DOMAIN mq}

-----------------------------------------------------------------------------
(* Participant.  Next to the program's fields the record holds what its     *)
(* host saw: hostAlarm (the alarm set last and not yet fired), decisions    *)
(* (the arguments of ReceiveDecision, in order), broadcasts (the messages   *)
(* the instance run last asked it to broadcast) and result (what the last   *)
(* top-level call returned).                                                *)

NoInstance == <<>>

NoAlarm == <<"none", 0>>
PhaseAlarm == <<"timeout", 0>>
\* The time ReceiveDecision returns for a decision.
NextStart(decision) == <<"next", decision[1].Vote.Instance + 1>>

NewParticipant(id, initialInstance) ==
    [id |-> id,
     currentInstance |-> initialInstance,
     gpbft |-> NoInstance,
     committees |-> EmptyMap,
     mqueue |-> newMessageQueue,
     finalised |-> NoJustification,
     terminatedDuringRound |-> 0,
     hostAlarm |-> NoAlarm,
     decisions |-> <<>>,
     delivered |-> {},
     received |-> 0,
     broadcasts |-> <<>>,
     result |-> ""]

participantTerminated(p) == p.gpbft # NoInstance /\ p.gpbft[1].phase = TERMINATED_PHASE

\* The instance as the participant keeps it once a top-level call is over, and
\* the alarm the instance set during the call.
settle(p, i) ==
    [p EXCEPT !.gpbft = <<[i EXCEPT !.alarmSet = FALSE, !.err = "", !.panic = ""]>>,
              !.hostAlarm = IF i.alarmSet THEN PhaseAlarm ELSE @,
              !.broadcasts = i.out,
              !.result = IF i.panic # "" THEN "panic: " \o i.panic ELSE i.err]

\* committee: what GetCommitteeForInstance answers, [ok, power, beacon]
getCommittee(p, instance, committee) ==
    IF instance \in DOMAIN p.committees
    THEN [p |-> p, err |-> "", c |-> p.committees[instance]]
    ELSE IF ~committee.ok
    THEN [p |-> p, err |-> "failed fetching committee", c |-> committee]
    ELSE IF ~PtValidate(committee.power)
    THEN [p |-> p, err |-> "invalid power table", c |-> committee]
    ELSE [p |-> [p EXCEPT !.committees = MapPut(@, instance,
                    [power |-> committee.power, beacon |-> committee.beacon])],
          err |-> "",
          c |-> [power |-> committee.power, beacon |-> committee.beacon]]

\* handleDecision with the bookkeeping in the program's order, except that the
\* instance counter is left alone.
handleDecisionNoAdvance(p) ==
    IF ~participantTerminated(p) THEN p
    ELSE LET i == p.gpbft[1]
         IN  [p EXCEPT !.finalised = i.terminationValue,
                       !.terminatedDuringRound = i.round,
                       !.committees = [x \in (DOMAIN @) \ {i.instanceID} |-> @[x]],
                       !.gpbft = NoInstance,
                       !.decisions = Append(@, i.terminationValue),
                       !.hostAlarm = NextStart(i.terminationValue)]

handleDecision(p) ==
    IF ~participantTerminated(p) THEN p
    ELSE LET i == p.gpbft[1]
         IN  [p EXCEPT !.finalised = i.terminationValue,
                       !.terminatedDuringRound = i.round,
                       !.committees = [x \in (DOMAIN @) \ {i.instanceID} |-> @[x]],
                       !.gpbft = NoInstance,
                       !.currentInstance = @ + 1,
                       !.decisions = Append(@, i.terminationValue),
                       !.hostAlarm = NextStart(i.terminationValue)]

\* The loop of beginInstance over the drained messages.
RECURSIVE deliverQueued(_, _, _)
deliverQueued(i, msgs, oracle) ==
    IF Len(msgs) = 0 \/ terminated(i) THEN i
    ELSE TheOne({IF Failed(i1) THEN i1 ELSE deliverQueued(i1, Tail(msgs), oracle) :
                 i1 \in {instanceReceive(i, msgs[1], oracle)}})

\* chain: what GetChainForInstance answers, [ok, chain]
beginInstance(p, chain, committee, senderOrder, oracle) ==
    IF ~chain.ok THEN [p EXCEPT !.result = "failed fetching chain"]
    ELSE IF IsZero(chain.chain)
    THEN [p EXCEPT !.result = "canonical chain cannot be zero-valued"]
    ELSE IF ~ChainValidate(Prefix(chain.chain, CHAIN_MAX_LEN - 1))
    THEN [p EXCEPT !.result = "invalid canonical chain"]
    ELSE
      LET input == Prefix(chain.chain, CHAIN_MAX_LEN - 1)
          msgs == queueDrain(p.mqueue, p.currentInstance, senderOrder)
          drained(p1) ==
              [p1 EXCEPT !.mqueue = queueDelete(@, p.currentInstance),
                         !.delivered = @ \cup
                             {<<msgs[n].Vote.Instance, p.currentInstance>> :
                                  n \in 1..Len(msgs)}]
      IN  TheOne({
            IF comm.err # "" THEN [comm.p EXCEPT !.result = comm.err]
            ELSE TheOne({
                   IF Failed(i1) THEN settle(comm.p, i1)
                   ELSE TheOne({
                          IF Failed(i2) THEN settle(drained(comm.p), i2)
                          ELSE handleDecision(settle(drained(comm.p), i2)) :
                          i2 \in {deliverQueued(i1, msgs, oracle)}}) :
                   i1 \in {instanceStart(newInstance(p.id, p.currentInstance, input,
                                                     comm.c.power, comm.c.beacon),
                                         oracle)}}) :
            comm \in {getCommittee(p, p.currentInstance, committee)}})

participantStart(p, chain, committee, senderOrder, oracle) ==
    beginInstance(p, chain, committee, senderOrder, oracle)

ErrValidationTooOld == "validation too old"

\* ReceiveMessage without the check of the message's instance.
participantReceiveMessageNoCheck(p, msg, oracle) ==
    IF p.gpbft # NoInstance /\ msg.Vote.Instance = p.currentInstance
    THEN LET p1 == [p EXCEPT !.delivered = @ \cup
                                {<<msg.Vote.Instance, p.currentInstance>>}]
         IN  TheOne({IF Failed(i1) THEN settle(p1, i1)
                     ELSE handleDecision(settle(p1, i1)) :
                     i1 \in {instanceReceive(p.gpbft[1], msg, oracle)}})
    ELSE [p EXCEPT !.mqueue = queueAdd(@, maxLookaheadRounds, msg), !.result = ""]

\* ReceiveMessage handing every message that is not too old to a live instance.
participantReceiveMessageAnyInstance(p, msg, oracle) ==
    IF msg.Vote.Instance < p.currentInstance
    THEN [p EXCEPT !.result = ErrValidationTooOld]
    ELSE IF p.gpbft # NoInstance
    THEN LET p1 == [p EXCEPT !.delivered = @ \cup
                                {<<msg.Vote.Instance, p.currentInstance>>}]
         IN  TheOne({IF Failed(i1) THEN settle(p1, i1)
                     ELSE handleDecision(settle(p1, i1)) :
                     i1 \in {instanceReceive(p.gpbft[1], msg, oracle)}})
    ELSE [p EXCEPT !.mqueue = queueAdd(@, maxLookaheadRounds, msg), !.result = ""]

participantReceiveMessage(p, msg, oracle) ==
    IF msg.Vote.Instance < p.currentInstance
    THEN [p EXCEPT !.result = ErrValidationTooOld]
    ELSE IF p.gpbft # NoInstance /\ msg.Vote.Instance = p.currentInstance
    THEN LET p1 == [p EXCEPT !.delivered = @ \cup
                                {<<msg.Vote.Instance, p.currentInstance>>}]
         IN  TheOne({IF Failed(i1) THEN settle(p1, i1)
                     ELSE handleDecision(settle(p1, i1)) :
                     i1 \in {instanceReceive(p.gpbft[1], msg, oracle)}})
    ELSE [p EXCEPT !.mqueue = queueAdd(@, maxLookaheadRounds, msg), !.result = ""]

ErrValidationNoCommittee == "validation no committee"

ErrValidationInvalid == "validation invalid"

\* ValidateMessage with the committee looked up before the message's instance
\* is compared with the current one.
participantValidateMessageLookupFirst(p, msg, committee) ==
    TheOne({
       IF msg.Vote.Instance < comm.p.currentInstance
       THEN [comm.p EXCEPT !.result = ErrValidationTooOld]
       ELSE IF comm.err # "" THEN [comm.p EXCEPT !.result = ErrValidationNoCommittee]
       ELSE IF ValidateAgainstCommittee(comm.c.power, comm.c.beacon, msg) # "ok"
       THEN [comm.p EXCEPT !.result = ErrValidationInvalid]
       ELSE [comm.p EXCEPT !.result = ""] :
       comm \in {getCommittee(p, msg.Vote.Instance, committee)}})

participantValidateMessage(p, msg, committee) ==
    IF msg.Vote.Instance < p.currentInstance
    THEN [p EXCEPT !.result = ErrValidationTooOld]
    ELSE TheOne({
           IF comm.err # "" THEN [comm.p EXCEPT !.result = ErrValidationNoCommittee]
           ELSE IF ValidateAgainstCommittee(comm.c.power, comm.c.beacon, msg) # "ok"
           THEN [comm.p EXCEPT !.result = ErrValidationInvalid]
           ELSE [comm.p EXCEPT !.result = ""] :
           comm \in {getCommittee(p, msg.Vote.Instance, committee)}})

\* The token ValidateMessage returns when it returns no error: the message.
validatedMessage(p, msg, committee) ==
    IF participantValidateMessage(p, msg, committee).result = "" THEN <<msg>> ELSE <<>>

participantReceiveAlarm(p, chain, committee, senderOrder, oracle) ==
    IF p.gpbft = NoInstance
    THEN beginInstance(p, chain, committee, senderOrder, oracle)
    ELSE TheOne({IF Failed(i1) THEN settle(p, i1)
                 ELSE handleDecision(settle(p, i1)) :
                 i1 \in {instanceReceiveAlarm(p.gpbft[1], oracle)}})

-----------------------------------------------------------------------------
(* SpecQuorum: one quorum tracker of a PREPARE, COMMIT or DECIDE phase,     *)
(* under any sequence of Receive and ReceiveJustification calls.            *)

\* The power tables of three participants with powers in 1..MaxPower.
QuorumTables ==
    {MkTable(<<Entry(1, a), Entry(2, b), Entry(3, c)>>) :
        <<a, b, c>> \in {t \in (1..MaxPower) \X (1..MaxPower) \X (1..MaxPower) :
                            t[1] >= t[2] /\ t[2] >= t[3]}}

QuorumValues == {Bottom, <<1>>, <<1, 2>>}

QuorumSenders == {1, 2, 3}

\* The signature of a sender's COMMIT of round 0 for the value.
QuorumSignature(sender, value) ==
    Sign(PubKeyOf(sender), MarshalForSigning(MkPayload(0, 0, COMMIT_PHASE, value)))

QuorumInit ==
    /\ sim = <<>>
    /\ q \in {[powerTable |-> t, state |-> newQuorumState] : t \in QuorumTables}
    /\ qcall = [op |-> "new", sender |-> 0, value |-> Bottom]
    /\ vmsg = <<>>
    /\ vres = ""
    /\ part = <<>>
    /\ gpbft = <<>>
    /\ net = <<>>

QuorumReceive ==
    /\ \E sender \in QuorumSenders, value \in QuorumValues :
          /\ q' = [q EXCEPT !.state = Receive(@, q.powerTable, sender, value,
                                              QuorumSignature(sender, value))]
          /\ qcall' = [op |-> "Receive", sender |-> sender, value |-> value]
    /\ UNCHANGED <<vmsg, vres, part, gpbft, net, sim>>

QuorumReceiveJustification ==
    /\ \E value \in QuorumValues \ {Bottom}, signers \in {{0, 1}, {0, 2}} :
          /\ q' = [q EXCEPT !.state = ReceiveJustification(@, value,
                        MkJustification(MkPayload(0, 0, PREPARE_PHASE, value), signers,
                            {Sign(q.powerTable.Entries[n + 1].PubKey,
                                  MarshalForSigning(MkPayload(0, 0, PREPARE_PHASE, value))) :
                                n \in signers}))]
          /\ qcall' = [op |-> "ReceiveJustification", sender |-> 0, value |-> value]
    /\ UNCHANGED <<vmsg, vres, part, gpbft, net, sim>>

QuorumNext == QuorumReceive \/ QuorumReceiveJustification

SpecQuorum == QuorumInit /\ [][QuorumNext]_vars

\* C9: in a tracker fed by Receive, whatever the senders sent and however
\* often, at most one value has strong quorum: FindStrongQuorumValue does not
\* reach its panic "multiple chains with strong quorum".
C9_AtMostOneStrongQuorum ==
    /\ Cardinality(StrongQuorumValues(q.state)) <= 1
    /\ ~FindStrongQuorumValuePanics(q.state)

\* C9 witness: a sender has offered a second, different value to a tracker in
\* which a value has strong quorum.
C9_Witness ==
    /\ qcall.op = "Receive"
    /\ Cardinality(StrongQuorumValues(q.state)) = 1
    /\ qcall.sender \in q.state.senders
    /\ Key(qcall.value) \in DOMAIN q.state.chainSupport
          => qcall.sender \notin DOMAIN q.state.chainSupport[Key(qcall.value)].signatures
    /\ Cardinality(DOMAIN q.state.chainSupport) >= 2

\* C10: a Receive from a sender that has already contributed to the tracker
\* changes nothing of it: senders, total power, every chain's power,
\* signatures and quorum flags stay as they were.
C10_ReceiveIdempotent ==
    [][(qcall'.op = "Receive" /\ qcall'.sender \in q.state.senders) => q' = q]_vars

\* C10 witness: a sender that had voted for one value has sent another one,
\* which is not among its signatures.
C10_Witness ==
    /\ qcall.op = "Receive"
    /\ qcall.sender \in q.state.senders
    /\ \E k \in DOMAIN q.state.chainSupport :
          /\ k # Key(qcall.value)
          /\ qcall.sender \in DOMAIN q.state.chainSupport[k].signatures
    /\ \A k \in DOMAIN q.state.chainSupport :
          k = Key(qcall.value) => qcall.sender \notin DOMAIN q.state.chainSupport[k].signatures

-----------------------------------------------------------------------------
(* SpecFind: the tracker of SpecQuorum, with FindStrongQuorumFor applied to  *)
(* it for any value; vmsg keeps the value asked for and the answer.         *)

FindCall ==
    /\ \E value \in QuorumValues :
          /\ vmsg' = <<[value |-> value,
                        result |-> FindStrongQuorumFor(q.state, q.powerTable, Key(value))]>>
          /\ qcall' = [op |-> "FindStrongQuorumFor", sender |-> 0, value |-> value]
    /\ UNCHANGED <<q, vres, part, gpbft, net, sim>>

FindNext == QuorumReceive \/ FindCall

SpecFind == QuorumInit /\ [][FindNext]_vars

\* The senders that voted for the value in the tracker.
Supporters(value) ==
    IF Key(value) \in DOMAIN q.state.chainSupport
    THEN DOMAIN q.state.chainSupport[Key(value)].signatures
    ELSE {}

RECURSIVE PowerOfIDs(_)
PowerOfIDs(ids) ==
    IF ids = {} THEN 0
    ELSE LET id == CHOOSE x \in ids : TRUE
         IN  PtPower(q.powerTable, id) + PowerOfIDs(ids \ {id})

IsStrong(ids) == 3 * PowerOfIDs(ids) > 2 * q.powerTable.Total

\* C37: FindStrongQuorumFor answers 'not found' exactly when the supporters
\* of the value do not hold a strong quorum; otherwise its signers are
\* supporters in strictly ascending index of the power table, hold a strong
\* quorum that is lost when the last of them is removed, are no more than
\* the members of any strong-quorum set of supporters, and the public keys
\* and signatures are theirs in the same order.
C37_MinimalQuorum ==
    qcall.op = "FindStrongQuorumFor" =>
       LET value == vmsg[1].value
           r == vmsg[1].result
           n == Len(r.Signers)
           idOf(x) == q.powerTable.Entries[r.Signers[x] + 1].ID
           ids(m) == {idOf(x) : x \in 1..m}
       IN  /\ r.ok <=> IsStrong(Supporters(value))
           /\ ~r.ok => n = 0
           /\ r.ok =>
                 /\ n >= 1
                 /\ \A x \in 1..n : r.Signers[x] \in 0..(Len(q.powerTable.Entries) - 1)
                 /\ \A x \in 1..(n - 1) : r.Signers[x] < r.Signers[x + 1]
                 /\ ids(n) \subseteq Supporters(value)
                 /\ IsStrong(ids(n))
                 /\ ~IsStrong(ids(n - 1))
                 /\ \A S \in SUBSET Supporters(value) : IsStrong(S) => Cardinality(S) >= n
                 /\ Len(r.PubKeys) = n
                 /\ Len(r.Signatures) = n
                 /\ \A x \in 1..n :
                       /\ r.PubKeys[x] = PubKeyOf(idOf(x))
                       /\ r.Signatures[x] = QuorumSignature(idOf(x), value)

\* Three supporters of powers 3, 1, 1: the two with most power are returned.
C37_SupporterLeftOut ==
    /\ qcall.op = "FindStrongQuorumFor"
    /\ vmsg[1].result.ok
    /\ Cardinality(Supporters(vmsg[1].value)) = 3
    /\ vmsg[1].result.Signers = <<0, 1>>
    /\ ~IsStrong({1})

-----------------------------------------------------------------------------
(* SpecValidate: validateMessage of one instance applied to one message    *)
(* drawn from a universe of well-formed and malformed messages.            *)

\* The host's beacon of an instance.
Beacon(instance) == 50 + instance

\* Total power 6: the signers {0, 2} hold exactly 2/3 of it.
ValTable == MkTable(<<Entry(1, 3), Entry(2, 2), Entry(3, 1)>>)

ValInput == <<1, 2>>

ValInstance == newInstance(2, 0, ValInput, ValTable, Beacon(0))

\* Sender 4 is not in the table.
ValSenders == {1, 4}

\* <<2>> has another base, <<1, 0>> holds a tipset with an empty key.
ValValues == {Bottom, <<1>>, <<1, 2>>, <<2>>, <<1, 0>>}

ValRounds == 0..MaxUint64

\* Every phase; TERMINATED is no step of a vote.
ValSteps == INITIAL_PHASE..TERMINATED_PHASE

\* Votes of this instance and of the next one.
ValVotes ==
    {MkPayload(n, r, st, v) : n \in {0, 1}, r \in ValRounds, st \in ValSteps, v \in ValValues}

\* The sender's signature of the vote, or participant 3's.
ValSignatures(sender, vote) ==
    {Sign(PubKeyOf(sender), MarshalForSigning(vote)),
     Sign(PubKeyOf(3), MarshalForSigning(vote))}

\* The sender's ticket for the vote's round, or the one of the round after.
ValTickets(sender, vote) ==
    IF vote.Step = CONVERGE_PHASE
    THEN {MakeTicket(Beacon(0), vote.Instance, vote.Round, PubKeyOf(sender)),
          MakeTicket(Beacon(0), vote.Instance, (vote.Round + 1) % (MaxUint64 + 1),
                     PubKeyOf(sender))}
    ELSE {NilSig}

\* Index 3 lies outside the table.
ValSigners == {{0, 1}, {0, 2}, {1, 2}, {0, 3}, {0, 1, 2}}

ValJustificationVotes ==
    {MkPayload(n, r, st, v) : n \in {0, 1}, r \in ValRounds,
        st \in {CONVERGE_PHASE, PREPARE_PHASE, COMMIT_PHASE},
        v \in {Bottom, <<1>>, <<1, 2>>, <<1, 0>>}}

\* The keys a signer set selects (those of the indices inside the table).
ValKeys(signers) ==
    {ValTable.Entries[n + 1].PubKey : n \in {b \in signers : b < Len(ValTable.Entries)}}

\* The aggregate of the selected keys over the vote; of the selected keys
\* over the vote of the round after; of other keys over the vote.
ValAggregates(vote, signers) ==
    {{Sign(k, MarshalForSigning(vote)) : k \in ValKeys(signers)},
     {Sign(k, MarshalForSigning([vote EXCEPT !.Round = (@ + 1) % (MaxUint64 + 1)])) :
         k \in ValKeys(signers)},
     {Sign(k, MarshalForSigning(vote)) : k \in ValKeys({1, 2})}}

ValJustifications ==
    {NoJustification} \cup
    UNION {{MkJustification(jv, sg, agg) : agg \in ValAggregates(jv, sg)} :
              <<jv, sg>> \in ValJustificationVotes \X ValSigners}

ValidateInit ==
    /\ sim = <<>>
    /\ \E sender \in ValSenders, vote \in ValVotes :
          \E sig \in ValSignatures(sender, vote), ticket \in ValTickets(sender, vote),
             j \in ValJustifications :
             vmsg = MkMessage(sender, vote, sig, ticket, j)
    /\ vres = "none"
    /\ q = <<>>
    /\ qcall = <<>>
    /\ part = <<>>
    /\ gpbft = <<>>
    /\ net = <<>>

Validate ==
    /\ vres = "none"
    /\ vres' = validateMessage(ValInstance, vmsg)
    /\ UNCHANGED <<vmsg, q, qcall, part, gpbft, net, sim>>

ValidateNext == Validate

SpecValidate == ValidateInit /\ [][ValidateNext]_vars

\* The summed power of the entries at the (in-range) signer indices.
ValPower(signers) ==
    LET bits == SortInts({b \in signers : b < Len(ValTable.Entries)})
        Sum[n \in 0..Len(bits)] ==
            IF n = 0 THEN 0 ELSE Sum[n - 1] + ValTable.Entries[bits[n] + 1].Power
    IN  Sum[Len(bits)]

ValAccepted == vres = "ok"

ValRejected == vres \notin {"none", "ok"}

\* The message needs a justification: every message but QUALITY, PREPARE of
\* round 0 and COMMIT for bottom.
ValNeedsJustification ==
    /\ vmsg.Vote.Step # QUALITY_PHASE
    /\ ~(vmsg.Vote.Step = PREPARE_PHASE /\ vmsg.Vote.Round = 0)
    /\ ~(vmsg.Vote.Step = COMMIT_PHASE /\ vmsg.Vote.Value = Bottom)

\* The justification is one of the listed (phase, round, value) combinations
\* for the message.
ValListed(j) ==
    LET r == vmsg.Vote.Round
        v == vmsg.Vote.Value
    IN  CASE vmsg.Vote.Step = CONVERGE_PHASE \/ (vmsg.Vote.Step = PREPARE_PHASE /\ r > 0) ->
                \/ j.Vote.Step = COMMIT_PHASE /\ j.Vote.Round = r - 1 /\ j.Vote.Value = Bottom
                \/ j.Vote.Step = PREPARE_PHASE /\ j.Vote.Round = r - 1 /\ j.Vote.Value = v
          [] vmsg.Vote.Step = COMMIT_PHASE /\ v # Bottom ->
                j.Vote.Step = PREPARE_PHASE /\ j.Vote.Round = r /\ j.Vote.Value = v
          [] vmsg.Vote.Step = DECIDE_PHASE ->
                j.Vote.Step = COMMIT_PHASE /\ j.Vote.Value = v
          [] OTHER -> FALSE

\* C5: an accepted message carries a justification exactly when its phase
\* requires one, and a carried justification is for the message's instance
\* and is one of the listed (phase, round, value) combinations.
C5_JustificationTable ==
    ValAccepted =>
        /\ ValNeedsJustification <=> vmsg.Justification # NoJustification
        /\ vmsg.Justification # NoJustification =>
              /\ vmsg.Justification[1].Vote.Instance = vmsg.Vote.Instance
              /\ ValListed(vmsg.Justification[1])

\* C5 below the largest round: the table holds for every accepted message
\* other than a COMMIT of round MaxUint64.
C5_JustificationTableBelowMaxRound ==
    (vmsg.Vote.Step = COMMIT_PHASE /\ vmsg.Vote.Round = MaxUint64) \/ C5_JustificationTable

\* C6: an accepted COMMIT for a non-bottom value of round r, for every r up
\* to the largest one, carries a PREPARE justification of round r; only for
\* DECIDE is a justification of any round accepted.
C6_CommitJustifiedBySameRound ==
    (ValAccepted /\ vmsg.Justification # NoJustification) =>
        LET j == vmsg.Justification[1] IN
        /\ (vmsg.Vote.Step = COMMIT_PHASE /\ vmsg.Vote.Value # Bottom) =>
              j.Vote.Step = PREPARE_PHASE /\ j.Vote.Round = vmsg.Vote.Round
        /\ vmsg.Vote.Step # DECIDE_PHASE =>
              j.Vote.Round \in {vmsg.Vote.Round, vmsg.Vote.Round - 1}

\* C6 witness of the failure: an accepted COMMIT of the largest round whose
\* PREPARE justification is of round 0.
C6_AcceptedAcrossRounds ==
    /\ ValAccepted
    /\ vmsg.Vote.Step = COMMIT_PHASE
    /\ vmsg.Vote.Round = MaxUint64
    /\ vmsg.Vote.Value # Bottom
    /\ vmsg.Justification # NoJustification
    /\ vmsg.Justification[1].Vote.Round = 0

\* One of the rejection reasons of the list applies to the message.
ValMustReject ==
    \/ PtPower(ValTable, vmsg.Sender) = 0
    \/ ~ChainValidate(vmsg.Vote.Value)
    \/ vmsg.Vote.Value # Bottom /\ vmsg.Vote.Value[1] # ValInput[1]
    \/ /\ vmsg.Vote.Step = QUALITY_PHASE
       /\ vmsg.Vote.Round # 0 \/ vmsg.Vote.Value = Bottom
    \/ /\ vmsg.Vote.Step = CONVERGE_PHASE
       /\ \/ vmsg.Vote.Round = 0
          \/ vmsg.Vote.Value = Bottom
          \/ vmsg.Ticket # MakeTicket(ValInstance.beacon, ValInstance.instanceID,
                                      vmsg.Vote.Round, PubKeyOf(vmsg.Sender))
    \/ /\ vmsg.Vote.Step = DECIDE_PHASE
       /\ vmsg.Vote.Round # 0 \/ vmsg.Vote.Value = Bottom
    \/ vmsg.Vote.Step \notin {QUALITY_PHASE, CONVERGE_PHASE, PREPARE_PHASE,
                              COMMIT_PHASE, DECIDE_PHASE}

\* The message is signed by its sender, a member of the table, for this
\* instance, over a valid chain on the input's base.
ValWellSigned ==
    /\ vmsg.Vote.Instance = ValInstance.instanceID
    /\ PtPower(ValTable, vmsg.Sender) > 0
    /\ ChainValidate(vmsg.Vote.Value)
    /\ vmsg.Vote.Value = Bottom \/ vmsg.Vote.Value[1] = ValInput[1]
    /\ vmsg.Signature = Sign(PubKeyOf(vmsg.Sender), MarshalForSigning(vmsg.Vote))

\* C7: every message of the rejection list is rejected, and neither the
\* round nor a bottom value is a reason to reject a PREPARE or a COMMIT: a
\* well-signed COMMIT for bottom or PREPARE of round 0, without
\* justification, is accepted at every round and for every value.
C7_RejectionList ==
    vres # "none" =>
        /\ ValMustReject => ValRejected
        /\ (/\ ValWellSigned
            /\ vmsg.Justification = NoJustification
            /\ \/ vmsg.Vote.Step = COMMIT_PHASE /\ vmsg.Vote.Value = Bottom
               \/ vmsg.Vote.Step = PREPARE_PHASE /\ vmsg.Vote.Round = 0) => ValAccepted
        /\ (ValWellSigned /\ vmsg.Vote.Step \in {PREPARE_PHASE, COMMIT_PHASE}) =>
              vres \in {"ok", "no justification", "evidence from wrong instance",
                        "invalid justification vote value chain",
                        "justification with unexpected phase",
                        "justification from wrong round",
                        "justification for a different value", "invalid signer index",
                        "justification with insufficient power",
                        "verification of the aggregate failed", "unexpected justification"}

\* C7 witness: a CONVERGE that is well signed and justified, of a round above
\* 0 and for a value, is rejected for its ticket alone.
C7_Witness ==
    /\ vres = "failed to verify ticket"
    /\ ValWellSigned
    /\ vmsg.Vote.Step = CONVERGE_PHASE
    /\ vmsg.Vote.Round = MaxUint64
    /\ vmsg.Justification # NoJustification
    /\ ValListed(vmsg.Justification[1])
    /\ ValPower(vmsg.Justification[1].Signers) * 3 > ValTable.Total * 2

\* C8: the justification of an accepted message has every signer index
\* inside the power table, signers whose summed power is more than 2/3 of the
\* total, and an aggregate that is the signers' keys over the justification's
\* own payload.
C8_JustificationSigners ==
    (ValAccepted /\ vmsg.Justification # NoJustification) =>
        LET j == vmsg.Justification[1] IN
        /\ \A b \in j.Signers : b \in 0..(Len(ValTable.Entries) - 1)
        /\ 3 * ValPower(j.Signers) > 2 * ValTable.Total
        /\ j.Signature = {Sign(ValTable.Entries[b + 1].PubKey, MarshalForSigning(j.Vote)) :
                             b \in j.Signers}

\* C8 witness: a justification that is right in everything but the power of
\* its signers, which is exactly 2/3 of the total, is rejected.
C8_Witness ==
    /\ vres = "justification with insufficient power"
    /\ LET j == vmsg.Justification[1] IN
       /\ 3 * ValPower(j.Signers) = 2 * ValTable.Total
       /\ ValListed(j)
       /\ j.Signature = {Sign(ValTable.Entries[b + 1].PubKey, MarshalForSigning(j.Vote)) :
                            b \in j.Signers}

-----------------------------------------------------------------------------
(* The environment of a participant: the committee, the chains and the      *)
(* messages of the other participants.                                      *)

\* The committee of every instance: three participants with power 3, 2, 2.
Table == MkTable(<<Entry(1, 3), Entry(2, 2), Entry(3, 2)>>)

\* What GetChainForInstance may answer.
ChainAnswers == {[ok |-> FALSE, chain |-> Bottom], [ok |-> TRUE, chain |-> <<1, 2>>]}

\* What GetCommitteeForInstance may answer.
CommitteeAnswers(instance) ==
    {[ok |-> FALSE, power |-> Table, beacon |-> Beacon(instance)],
     [ok |-> TRUE, power |-> Table, beacon |-> Beacon(instance)]}

SignedJustification(instance, round, step, value, signers) ==
    LET vote == MkPayload(instance, round, step, value)
    IN  MkJustification(vote, signers,
            {Sign(Table.Entries[n + 1].PubKey, MarshalForSigning(vote)) : n \in signers})

\* The justifications signed by the table entries at the indices of signers.
Justifications(instance, rounds, values, signers) ==
    {NoJustification} \cup
    {SignedJustification(instance, r, st, v, signers) :
        r \in rounds, st \in {PREPARE_PHASE, COMMIT_PHASE}, v \in values \cup {Bottom}}

SignedMessage(sender, instance, round, step, value, justification) ==
    LET vote == MkPayload(instance, round, step, value)
    IN  MkMessage(sender, vote,
                  Sign(PubKeyOf(sender), MarshalForSigning(vote)),
                  IF step = CONVERGE_PHASE
                  THEN MakeTicket(Beacon(instance), instance, round, PubKeyOf(sender))
                  ELSE NilSig,
                  justification)

\* The messages of the senders that pass validation.
ValidMessages(senders, instances, rounds, values, signers) ==
    {m \in UNION {{SignedMessage(s, k, r, st, v, j) :
                      s \in senders, r \in rounds, st \in QUALITY_PHASE..DECIDE_PHASE,
                      v \in values \cup {Bottom},
                      j \in Justifications(k, rounds, values, signers)} : k \in instances} :
        ValidateAgainstCommittee(Table, Beacon(m.Vote.Instance), m) = "ok"}

-----------------------------------------------------------------------------
(* Spec: one participant, driven by its host with any chain, committee,     *)
(* alarm and validated message of the two other participants.               *)

Self == 1 + 1

Others == {1, 3}

\* The others vote for the participant's own chain or for bottom.
Values == {<<1, 2>>}

\* A message of participant 1 signed with another key.
ForgedMessage ==
    [SignedMessage(1, 0, 0, QUALITY_PHASE, <<1, 2>>, NoJustification)
        EXCEPT !.Signature = Sign(PubKeyOf(3), @.m)]

SpecMessages == ValidMessages(Others, 0..MaxInstance, 0..SpecMaxRound, Values, {0, 2})

\* The messages handed to ValidateMessage: one of each instance, and a forged one.
UnvalidatedMessages ==
    {SignedMessage(1, k, 0, QUALITY_PHASE, <<1, 2>>, NoJustification) : k \in 0..MaxInstance}
        \cup {ForgedMessage}

\* The orders in which the walk of the queue's map may meet the senders.
SenderOrders == {<<1, 3>>, <<3, 1>>}

SenderOrdersFor(p) ==
    IF p.currentInstance \in DOMAIN p.mqueue
       /\ Cardinality(DOMAIN p.mqueue[p.currentInstance]) > 1
    THEN SenderOrders ELSE {<<1, 3>>}

\* The chains a map walk of the running call may meet first.
OraclesFor(p) ==
    IF p.gpbft # NoInstance /\ p.gpbft[1].phase \in {CONVERGE_PHASE, COMMIT_PHASE}
    THEN Values ELSE {<<1, 2>>}

\* The rounds of the model end at MaxRound.
RoundInBounds(p) ==
    IF p.gpbft = NoInstance THEN TRUE ELSE p.gpbft[1].round <= MaxRound

SpecInit ==
    /\ sim = <<>>
    /\ part = [NewParticipant(Self, 0) EXCEPT !.result = "new"]
    /\ q = <<>>
    /\ qcall = <<>>
    /\ vmsg = <<>>
    /\ vres = ""
    /\ gpbft = <<>>
    /\ net = <<>>

others == <<q, qcall, vmsg, vres, gpbft, net, sim>>

Start ==
    /\ part.currentInstance <= MaxInstance
    /\ \E chain \in ChainAnswers, committee \in CommitteeAnswers(part.currentInstance),
          order \in SenderOrdersFor(part) :
          /\ part' = participantStart(part, chain, committee, order, <<1, 2>>)
          /\ RoundInBounds(part')
    /\ UNCHANGED others

ValidateMessage ==
    /\ \E msg \in UnvalidatedMessages :
          \E committee \in CommitteeAnswers(msg.Vote.Instance) :
             part' = participantValidateMessage(part, msg, committee)
    /\ UNCHANGED others

\* The number of messages received so far is kept in the model only.
ReceiveMessage ==
    /\ part.received < MaxMsgs
    /\ \E msg \in SpecMessages, oracle \in OraclesFor(part) :
          /\ part' = [participantReceiveMessage(part, msg, oracle)
                         EXCEPT !.received = @ + 1]
          /\ RoundInBounds(part')
    /\ UNCHANGED others

\* The alarm fires: the host's time has reached the time the alarm was set for.
ReceiveAlarm ==
    /\ part.hostAlarm # NoAlarm
    /\ part.currentInstance <= MaxInstance
    /\ LET fired == [part EXCEPT
                        !.hostAlarm = NoAlarm,
                        !.gpbft = IF @ # NoInstance /\ part.hostAlarm = PhaseAlarm
                                  THEN <<[@[1] EXCEPT !.phaseTimeout = EXPIRED]>>
                                  ELSE @]
       IN  \E chain \in ChainAnswers, committee \in CommitteeAnswers(part.currentInstance),
              order \in SenderOrdersFor(part), oracle \in OraclesFor(part) :
              /\ part' = participantReceiveAlarm(fired, chain, committee, order, oracle)
              /\ RoundInBounds(part')
    /\ UNCHANGED others

\* Time passes the phase timeout before the alarm is delivered.
TimePasses ==
    /\ part.gpbft # NoInstance
    /\ part.gpbft[1].phaseTimeout = PENDING
    /\ part' = [part EXCEPT !.gpbft = <<[@[1] EXCEPT !.phaseTimeout = EXPIRED]>>]
    /\ UNCHANGED others

Next == Start \/ ValidateMessage \/ ReceiveMessage \/ ReceiveAlarm \/ TimePasses

Spec == SpecInit /\ [][Next]_vars

\* The decision the host was handed last.
LastDecision == part.decisions[Len(part.decisions)]

\* What a top-level call that handed a decision to the host leaves behind.
HandedOff ==
    LET d == part'.decisions[Len(part'.decisions)]
    IN  /\ Len(part'.decisions) = Len(part.decisions) + 1
        /\ d # NoJustification
        /\ d[1].Vote.Instance = part.currentInstance
        /\ part'.finalised = d
        /\ part.currentInstance \notin DOMAIN part'.committees
        /\ part'.gpbft = NoInstance
        /\ part'.currentInstance = part.currentInstance + 1
        /\ part'.hostAlarm = NextStart(d)

\* C2 (between calls): the participant never holds a terminated instance, so
\* a termination is handed to the host in the call that reached it and no
\* later message reaches the instance; the host is handed one decision for
\* each instance below current_instance and none for any other.
C2_OneDecisionEach ==
    /\ ~participantTerminated(part)
    /\ Len(part.decisions) = part.currentInstance
    /\ \A n \in 1..Len(part.decisions) : part.decisions[n][1].Vote.Instance = n - 1

\* C2: every instance yields one termination value, handed to
\* ReceiveDecision once, in the top-level call in which the instance
\* terminated; when that call returns the decision is recorded, the
\* committee of the instance is dropped, no instance is active,
\* current_instance has grown by one and the alarm is set to the time
\* ReceiveDecision answered.
C2_SingleDecideHandOff ==
    /\ []C2_OneDecisionEach
    /\ [][part'.decisions # part.decisions => HandedOff]_vars

\* C2 witness: the second instance has terminated inside a ReceiveMessage
\* call and its decision has been handed off.
C2_Witness ==
    /\ Len(part.decisions) = 2
    /\ part.gpbft = NoInstance
    /\ part.finalised = LastDecision
    /\ part.hostAlarm = NextStart(LastDecision)
    /\ part.result = ""
    /\ part.received > 0

\* C4: current_instance never decreases, every message delivered to an
\* instance's inbox was for the current instance or a later one when it was
\* delivered, and the queue holds no message of an instance below
\* current_instance.
C4_MonotoneInstance ==
    /\ [][part'.currentInstance >= part.currentInstance]_vars
    /\ [](\A d \in part.delivered : d[1] >= d[2])
    /\ [](\A m \in queuedMessages(part.mqueue) : m.Vote.Instance >= part.currentInstance)

\* C4 witness: a message of instance 0 has been refused by the participant,
\* which is at instance 1, has had messages delivered to the inboxes of both
\* instances and holds none in its queue.
C4_Witness ==
    /\ part.currentInstance >= 1
    /\ part.result = ErrValidationTooOld
    /\ part.received > 0
    /\ {d[1] : d \in part.delivered} = {0, 1}

-----------------------------------------------------------------------------
(* SpecRoute: the participant of Spec, with the last ReceiveMessage call    *)
(* kept beside it: the participant before the call and the message.         *)

RouteMessages == ValidMessages(Others, 0..MaxInstance, {0}, Values, {0, 2})

RouteInit ==
    /\ sim = <<>>
    /\ part = [NewParticipant(Self, 0) EXCEPT !.result = "new"]
    /\ q = <<>>
    /\ qcall = <<>>
    /\ vmsg = <<>>
    /\ vres = ""
    /\ gpbft = <<>>
    /\ net = <<>>

routeOthers == <<q, qcall, vres, gpbft, net, sim>>

RouteStart ==
    /\ part.currentInstance <= MaxInstance
    /\ \E chain \in ChainAnswers, committee \in CommitteeAnswers(part.currentInstance),
          order \in SenderOrdersFor(part) :
          /\ part' = participantStart(part, chain, committee, order, <<1, 2>>)
          /\ RoundInBounds(part')
    /\ vmsg' = <<>>
    /\ UNCHANGED routeOthers

RouteReceiveMessage ==
    /\ part.received < MaxMsgs
    /\ \E msg \in RouteMessages, oracle \in OraclesFor(part) :
          /\ part' = [participantReceiveMessage(part, msg, oracle)
                         EXCEPT !.received = @ + 1]
          /\ vmsg' = <<[before |-> part, msg |-> msg]>>
          /\ RoundInBounds(part')
    /\ UNCHANGED routeOthers

RouteReceiveAlarm ==
    /\ part.hostAlarm # NoAlarm
    /\ part.currentInstance <= MaxInstance
    /\ LET fired == [part EXCEPT
                        !.hostAlarm = NoAlarm,
                        !.gpbft = IF @ # NoInstance /\ part.hostAlarm = PhaseAlarm
                                  THEN <<[@[1] EXCEPT !.phaseTimeout = EXPIRED]>>
                                  ELSE @]
       IN  \E chain \in ChainAnswers, committee \in CommitteeAnswers(part.currentInstance),
              order \in SenderOrdersFor(part), oracle \in OraclesFor(part) :
              /\ part' = participantReceiveAlarm(fired, chain, committee, order, oracle)
              /\ RoundInBounds(part')
    /\ vmsg' = <<>>
    /\ UNCHANGED routeOthers

RouteNext == RouteStart \/ RouteReceiveMessage \/ RouteReceiveAlarm

SpecRoute == RouteInit /\ [][RouteNext]_vars

\* What the ReceiveMessage call has done with its message.
ReceivedAs(call) ==
    LET before == call.before
        msg == call.msg
    IN  IF msg.Vote.Instance < before.currentInstance
        THEN \* refused, and nothing of the participant has changed
             part = [before EXCEPT !.result = ErrValidationTooOld,
                                   !.received = @ + 1]
        ELSE IF before.gpbft # NoInstance /\ msg.Vote.Instance = before.currentInstance
        THEN \* handed to the active instance, the queue left alone
             /\ <<msg.Vote.Instance, before.currentInstance>> \in part.delivered
             /\ part.mqueue = before.mqueue
        ELSE \* queued, and not acted on
             part = [before EXCEPT !.result = "", !.received = @ + 1,
                                   !.mqueue = queueAdd(@, maxLookaheadRounds, msg)]

\* C18: ReceiveMessage hands a message to the active instance only when an
\* instance is live and the message is for current_instance; a message of a
\* later instance, or of the current one while no instance is live, goes to
\* the queue and reaches an inbox only when its instance runs; a message of
\* an earlier instance is refused as too old and changes nothing.
C18_ReceiveRouting ==
    /\ \A d \in part.delivered : d[1] = d[2]
    /\ part.gpbft # NoInstance => part.currentInstance \notin DOMAIN part.mqueue
    /\ \A n \in 1..Len(vmsg) : ReceivedAs(vmsg[n])

\* C18 witness: a message of instance 1 has just been queued while instance 0
\* is live and has been handed messages.
C18_Witness ==
    /\ vmsg # <<>>
    /\ vmsg[1].msg.Vote.Instance = 1
    /\ part.currentInstance = 0
    /\ part.gpbft # NoInstance
    /\ <<0, 0>> \in part.delivered
    /\ vmsg[1].msg \in queuedMessages(part.mqueue)
    /\ part.result = ""

-----------------------------------------------------------------------------
(* SpecQueued: one participant whose host hands every message to            *)
(* ValidateMessage and the validated ones to ReceiveMessage, and answers    *)
(* GetChainForInstance with a chain on the head of the last decision.  The  *)
(* senders are members of the committee; participant 1 also sends chains    *)
(* that stand on other bases.                                               *)

QueuedChains == {<<1, 2>>, <<2, 3>>, <<5, 6>>}

\* The messages handed to ValidateMessage: the DECIDEs that end instance 0,
\* participant 1's QUALITY for each chain in each instance, a forged one.
QueuedCandidates ==
    {m \in ValidMessages(Others, {0}, {0}, {<<1, 2>>}, {0, 2}) :
        m.Vote.Step = DECIDE_PHASE /\ ~IsZero(m.Vote.Value)}
    \cup {SignedMessage(1, k, 0, QUALITY_PHASE, c, NoJustification) :
             k \in 0..MaxInstance, c \in QueuedChains}
    \cup {ForgedMessage}

\* GetChainForInstance: the first instance starts from <<1, 2>>, a later one
\* from the head of the chain decided last.
QueuedChainAt(p) ==
    IF p.currentInstance = 0 \/ p.finalised = NoJustification
    THEN [ok |-> TRUE, chain |-> <<1, 2>>]
    ELSE LET base == ChainHead(p.finalised[1].Vote.Value)
         IN  [ok |-> TRUE, chain |-> <<base, base + 1>>]

\* vmsg keeps the ValidatedMessage the host holds, the messages the last
\* beginInstance took from the queue and the message the last ReceiveMessage
\* handed to the live instance.
QueuedInit ==
    /\ sim = <<>>
    /\ part = [NewParticipant(Self, 0) EXCEPT !.result = "new"]
    /\ vmsg = [token |-> <<>>, drained |-> <<>>, handed |-> <<>>]
    /\ q = <<>>
    /\ qcall = <<>>
    /\ vres = ""
    /\ gpbft = <<>>
    /\ net = <<>>

queuedOthers == <<q, qcall, vres, gpbft, net, sim>>

\* What beginInstance took from the queue in a call that started the instance.
QueuedDrained(p, p1, order) ==
    IF p1.result = "" /\ p1.mqueue # p.mqueue
    THEN queueDrain(p.mqueue, p.currentInstance, order) ELSE <<>>

QueuedStart ==
    /\ part.currentInstance <= MaxInstance
    /\ \E committee \in CommitteeAnswers(part.currentInstance),
          order \in SenderOrdersFor(part) :
          /\ part' = participantStart(part, QueuedChainAt(part), committee, order, <<1, 2>>)
          /\ vmsg' = [token |-> vmsg.token, drained |-> QueuedDrained(part, part', order),
                      handed |-> <<>>]
          /\ RoundInBounds(part')
    /\ UNCHANGED queuedOthers

QueuedValidateMessage ==
    /\ \E msg \in QueuedCandidates :
          \E committee \in CommitteeAnswers(msg.Vote.Instance) :
             /\ part' = participantValidateMessage(part, msg, committee)
             /\ vmsg' = [token |-> validatedMessage(part, msg, committee),
                         drained |-> <<>>, handed |-> <<>>]
    /\ UNCHANGED queuedOthers

QueuedReceiveMessage ==
    /\ vmsg.token # <<>>
    /\ part.received < MaxMsgs
    /\ \E oracle \in OraclesFor(part) :
          /\ part' = [participantReceiveMessage(part, vmsg.token[1], oracle)
                         EXCEPT !.received = @ + 1]
          /\ RoundInBounds(part')
    /\ vmsg' = [token |-> <<>>, drained |-> <<>>,
                handed |-> IF part.gpbft # NoInstance
                              /\ vmsg.token[1].Vote.Instance = part.currentInstance
                           THEN vmsg.token ELSE <<>>]
    /\ UNCHANGED queuedOthers

QueuedReceiveAlarm ==
    /\ part.hostAlarm # NoAlarm
    /\ part.currentInstance <= MaxInstance
    /\ LET fired == [part EXCEPT
                        !.hostAlarm = NoAlarm,
                        !.gpbft = IF @ # NoInstance /\ part.hostAlarm = PhaseAlarm
                                  THEN <<[@[1] EXCEPT !.phaseTimeout = EXPIRED]>>
                                  ELSE @]
       IN  \E committee \in CommitteeAnswers(part.currentInstance),
              order \in SenderOrdersFor(part), oracle \in OraclesFor(part) :
              /\ part' = participantReceiveAlarm(fired, QueuedChainAt(part), committee,
                                                 order, oracle)
              /\ vmsg' = [token |-> vmsg.token,
                          drained |-> IF part.gpbft = NoInstance
                                      THEN QueuedDrained(part, part', order) ELSE <<>>,
                          handed |-> <<>>]
              /\ RoundInBounds(part')
    /\ UNCHANGED queuedOthers

QueuedNext ==
    QueuedStart \/ QueuedValidateMessage \/ QueuedReceiveMessage \/ QueuedReceiveAlarm

SpecQueued == QueuedInit /\ [][QueuedNext]_vars

\* The message's sender and chain are in the tracker of the message's phase.
Contributed(i, msg) ==
    LET round == roundState(i, msg.Vote.Round)
        qs == CASE msg.Vote.Step = QUALITY_PHASE -> i.quality
                [] msg.Vote.Step = PREPARE_PHASE -> round.prepared
                [] msg.Vote.Step = COMMIT_PHASE -> round.committed
                [] OTHER -> i.decision
    IN  /\ msg.Vote.Step \in {QUALITY_PHASE, PREPARE_PHASE, COMMIT_PHASE, DECIDE_PHASE}
        /\ msg.Sender \in qs.senders
        /\ Key(msg.Vote.Value) \in DOMAIN qs.chainSupport

\* C20: a message queued for an instance that is not running yet is
\* validated when the queue is drained at the start of that instance: no
\* message taken from the queue contributes to the instance's quorum
\* trackers without passing validation against the committee and the input
\* the instance runs with.
C20_QueuedValidatedAtDrain ==
    part.gpbft # NoInstance =>
       \A n \in 1..Len(vmsg.drained) :
          Contributed(part.gpbft[1], vmsg.drained[n])
          => validateMessage(part.gpbft[1], vmsg.drained[n]) = "ok"

\* C20: instance 1 runs with input <<2, 3>> and its QUALITY tracker counts
\* participant 1 for <<5, 6>>, from a message that waited in the queue.
C20_WrongBaseCounted ==
    /\ part.currentInstance = 1
    /\ part.gpbft # NoInstance
    /\ part.gpbft[1].input = <<2, 3>>
    /\ \E n \in 1..Len(vmsg.drained) :
          /\ vmsg.drained[n].Vote.Value = <<5, 6>>
          /\ Contributed(part.gpbft[1], vmsg.drained[n])

\* Every message in the queue has passed ValidateMessage against the cached
\* committee of its instance: validation happens before queueing.
QueuedWereValidated ==
    \A m \in queuedMessages(part.mqueue) :
       /\ m.Vote.Instance \in DOMAIN part.committees
       /\ ValidateAgainstCommittee(part.committees[m.Vote.Instance].power,
                                   part.committees[m.Vote.Instance].beacon, m) = "ok"

-----------------------------------------------------------------------------

\* The chains the instance's quorum trackers and converge states hold.
TrackedChains(i) ==
    DOMAIN i.quality.chainSupport \cup DOMAIN i.decision.chainSupport
    \cup UNION {DOMAIN i.rounds[r].prepared.chainSupport
                   \cup DOMAIN i.rounds[r].committed.chainSupport
                   \cup DOMAIN i.rounds[r].converged.values : r \in DOMAIN i.rounds}

\* C21: a message whose non-bottom value stands on another base than the
\* instance's input is refused when the instance receives it, and no chain
\* on another base is ever held by a quorum tracker or converge state of
\* the instance.
C21_WrongBaseRejected ==
    part.gpbft # NoInstance =>
       /\ \A n \in 1..Len(vmsg.handed) :
             validateMessage(part.gpbft[1], vmsg.handed[n]) = "unexpected base"
             => part.result # ""
       /\ \A c \in TrackedChains(part.gpbft[1]) :
             IsZero(c) \/ HasBase(c, Base(part.gpbft[1].input))

\* C21: ReceiveMessage handed a QUALITY for <<5, 6>> to the live instance,
\* whose input is <<1, 2>>; it returned no error and the QUALITY tracker
\* counts the chain.
C21_WrongBaseAccepted ==
    /\ part.gpbft # NoInstance
    /\ part.gpbft[1].input = <<1, 2>>
    /\ vmsg.handed # <<>>
    /\ vmsg.handed[1].Vote.Value = <<5, 6>>
    /\ part.result = ""
    /\ Key(<<5, 6>>) \in DOMAIN part.gpbft[1].quality.chainSupport

\* The cache holds no committee of an instance that has completed.
CacheCurrentOrLater ==
    \A k \in DOMAIN part.committees : k >= part.currentInstance

\* C22: the committee cache holds entries only for the current and later
\* instances, and never more than max_lookahead_rounds of them are of
\* future instances, whatever messages are validated.
C22_CommitteeCacheBounded ==
    /\ CacheCurrentOrLater
    /\ Cardinality({k \in DOMAIN part.committees : k > part.currentInstance})
          <= maxLookaheadRounds

\* C22: ValidateMessage has accepted a message of instance 1 while the
\* participant is at instance 0, and the committee of instance 1 is cached.
C22_FutureCommitteeCached ==
    /\ part.currentInstance = 0
    /\ 1 \in DOMAIN part.committees
    /\ vmsg.token # <<>>
    /\ vmsg.token[1].Vote.Instance = 1
    /\ part.result = ""

-----------------------------------------------------------------------------
(* SpecConcurrent: the core of one participant, called by the runner's      *)
(* loop, next to one pubsub thread inside Participant.ValidateMessage.  The *)
(* participant has no lock: the thread reads currentInstance, reads the     *)
(* committee map and writes it, one access at a time, between the core's    *)
(* calls.  At most one call of the core falls inside one validation.        *)

\* The validated messages the core is handed: those of instance 0.
ConcMessages ==
    {m \in ValidMessages(Others, {0}, {0}, {<<1, 2>>}, {0, 2}) :
        m.Vote.Step \in {QUALITY_PHASE, DECIDE_PHASE} /\ ~IsZero(m.Vote.Value)}

\* The messages the thread validates.
ConcCandidates ==
    {SignedMessage(1, k, 0, QUALITY_PHASE, <<1, 2>>, NoJustification) : k \in 0..MaxInstance}

\* vmsg is the thread: where it is in ValidateMessage (pc), its message, the
\* committee it holds (c), the participant when it entered (start), the call
\* of the core made since (calls) and what it returned (result).
ConcIdle ==
    [pc |-> "idle", msg |-> <<>>, c |-> <<>>, start |-> <<>>, calls |-> <<>>,
     result |-> ""]

ConcInit ==
    /\ sim = <<>>
    /\ part = [NewParticipant(Self, 0) EXCEPT !.result = "new"]
    /\ vmsg = ConcIdle
    /\ q = <<>>
    /\ qcall = <<>>
    /\ vres = ""
    /\ gpbft = <<>>
    /\ net = <<>>

concOthers == <<q, qcall, vres, gpbft, net, sim>>

\* The alarm fires: the time of the alarm set last has come.
ConcFired(p) ==
    [p EXCEPT !.hostAlarm = NoAlarm,
              !.gpbft = IF @ # NoInstance /\ p.hostAlarm = PhaseAlarm
                        THEN <<[@[1] EXCEPT !.phaseTimeout = EXPIRED]>>
                        ELSE @]

\* The participant after a call of the core.
ConcCall(p, call) ==
    CASE call.kind = "Start" ->
            participantStart(p, QueuedChainAt(p), call.committee, call.order, <<1, 2>>)
      [] call.kind = "ReceiveMessage" ->
            [participantReceiveMessage(p, call.msg, call.oracle)
                EXCEPT !.received = @ + 1]
      [] OTHER ->
            participantReceiveAlarm(ConcFired(p), QueuedChainAt(p), call.committee,
                                    call.order, call.oracle)

\* The core runs while the thread is idle, or once between the thread's
\* entry into ValidateMessage and the host's next use of the thread.
ConcMayCall == vmsg.pc = "idle" \/ vmsg.calls = <<>>

ConcNoted(call) ==
    IF vmsg.pc = "idle" THEN vmsg
    ELSE [vmsg EXCEPT !.calls = Append(@, call)]

ConcStart ==
    /\ ConcMayCall
    /\ part.currentInstance <= MaxInstance
    /\ \E committee \in CommitteeAnswers(part.currentInstance),
          order \in SenderOrdersFor(part) :
          LET call == [kind |-> "Start", msg |-> <<>>, committee |-> committee,
                       order |-> order, oracle |-> <<1, 2>>]
          IN  /\ part' = ConcCall(part, call)
              /\ vmsg' = ConcNoted(call)
              /\ RoundInBounds(part')
    /\ UNCHANGED concOthers

ConcReceiveMessage ==
    /\ ConcMayCall
    /\ part.received < MaxMsgs
    /\ \E msg \in ConcMessages, oracle \in OraclesFor(part) :
          LET call == [kind |-> "ReceiveMessage", msg |-> msg,
                       committee |-> <<>>, order |-> <<>>, oracle |-> oracle]
          IN  /\ part' = ConcCall(part, call)
              /\ vmsg' = ConcNoted(call)
              /\ RoundInBounds(part')
    /\ UNCHANGED concOthers

ConcReceiveAlarm ==
    /\ ConcMayCall
    /\ part.hostAlarm # NoAlarm
    /\ part.currentInstance <= MaxInstance
    /\ \E committee \in CommitteeAnswers(part.currentInstance),
          order \in SenderOrdersFor(part), oracle \in OraclesFor(part) :
          LET call == [kind |-> "ReceiveAlarm", msg |-> <<>>, committee |-> committee,
                       order |-> order, oracle |-> oracle]
          IN  /\ part' = ConcCall(part, call)
              /\ vmsg' = ConcNoted(call)
              /\ RoundInBounds(part')
    /\ UNCHANGED concOthers

\* ValidateMessage is entered and compares the message's instance with
\* currentInstance.
ValidateBegin ==
    /\ vmsg.pc = "idle"
    /\ \E msg \in ConcCandidates :
          vmsg' = [pc |-> IF msg.Vote.Instance < part.currentInstance
                          THEN "done" ELSE "lookup",
                   msg |-> msg, c |-> <<>>, start |-> part, calls |-> <<>>,
                   result |-> IF msg.Vote.Instance < part.currentInstance
                              THEN ErrValidationTooOld ELSE ""]
    /\ UNCHANGED <<part, concOthers>>

\* getCommittee reads the committee map.
ValidateLookup ==
    /\ vmsg.pc = "lookup"
    /\ vmsg' = IF vmsg.msg.Vote.Instance \in DOMAIN part.committees
               THEN [vmsg EXCEPT !.pc = "check",
                                 !.c = part.committees[vmsg.msg.Vote.Instance]]
               ELSE [vmsg EXCEPT !.pc = "fetch"]
    /\ UNCHANGED <<part, concOthers>>

\* getCommittee asks the host and writes the committee map.
ValidateFetch ==
    /\ vmsg.pc = "fetch"
    /\ \E committee \in CommitteeAnswers(vmsg.msg.Vote.Instance) :
          IF ~committee.ok \/ ~PtValidate(committee.power)
          THEN /\ vmsg' = [vmsg EXCEPT !.pc = "done",
                                       !.result = ErrValidationNoCommittee]
               /\ part' = part
          ELSE LET c == [power |-> committee.power, beacon |-> committee.beacon]
               IN  /\ vmsg' = [vmsg EXCEPT !.pc = "check", !.c = c]
                   /\ part' = [part EXCEPT !.committees =
                                  MapPut(@, vmsg.msg.Vote.Instance, c)]
    /\ UNCHANGED concOthers

\* The message is validated against the committee.
ValidateCheck ==
    /\ vmsg.pc = "check"
    /\ vmsg' = [vmsg EXCEPT
                   !.pc = "done",
                   !.result = IF ValidateAgainstCommittee(vmsg.c.power, vmsg.c.beacon,
                                                          vmsg.msg) # "ok"
                              THEN ErrValidationInvalid ELSE ""]
    /\ UNCHANGED <<part, concOthers>>

\* The thread is free for the next message.
ValidateReturn ==
    /\ vmsg.pc = "done"
    /\ vmsg' = ConcIdle
    /\ UNCHANGED <<part, concOthers>>

ConcNext ==
    \/ ConcStart \/ ConcReceiveMessage \/ ConcReceiveAlarm
    \/ ValidateBegin \/ ValidateLookup \/ ValidateFetch \/ ValidateCheck
    \/ ValidateReturn

SpecConcurrent == ConcInit /\ [][ConcNext]_vars

\* current_instance and the committee cache.
ConcShared(p) == <<p.currentInstance, p.committees>>

\* What the two sequential orders of the validation and the calls of the
\* core leave, for a committee the host may answer.
ConcSequential(v) ==
    {ConcShared(IF v.calls = <<>>
                THEN participantValidateMessage(v.start, v.msg, committee)
                ELSE IF first
                THEN ConcCall(participantValidateMessage(v.start, v.msg, committee),
                              v.calls[1])
                ELSE participantValidateMessage(ConcCall(v.start, v.calls[1]),
                                                v.msg, committee)) :
        committee \in CommitteeAnswers(v.msg.Vote.Instance), first \in BOOLEAN}

\* C23: a validation running beside the core writes no state shared with
\* it: whenever a validation has returned, current_instance and the
\* committee cache are as one of the two sequential orders of the validation
\* and the core's call leaves them.
C23_ValidationSerializable ==
    vmsg.pc = "done" => ConcShared(part) \in ConcSequential(vmsg)

\* C23: instance 0 terminated between the thread's comparison with
\* currentInstance and its look into the committee map; the thread has
\* returned and the committee of instance 0 is cached at current_instance 1.
C23_StaleCommitteeCached ==
    /\ vmsg.pc = "done"
    /\ vmsg.result = ""
    /\ vmsg.msg.Vote.Instance = 0
    /\ Len(vmsg.calls) = 1
    /\ vmsg.start.currentInstance = 0
    /\ part.currentInstance = 1
    /\ 0 \in DOMAIN part.committees

-----------------------------------------------------------------------------
(* SpecRunner: the loop of gpbftRunner.Start over one participant.  The     *)
(* runner has asked for instance 0 to start at once; it hands the alarm and *)
(* the validated messages to the participant, drops the error of a message  *)
(* and returns, ending the loop, on the error of an alarm.  The host's      *)
(* chain and committee fetches may fail.                                    *)

\* The validated messages: those that take instance 0 to its end and
\* participant 1's QUALITY of each instance.
RunnerMessages ==
    ConcMessages \cup
    {SignedMessage(1, k, 0, QUALITY_PHASE, <<1, 2>>, NoJustification) : k \in 0..MaxInstance}

\* vmsg is the runner: whether its loop is running, and the participant
\* before the alarm handed over last.
RunnerInit ==
    /\ sim = <<>>
    /\ part = [NewParticipant(Self, 0) EXCEPT !.result = "new",
                                              !.hostAlarm = <<"next", 0>>]
    /\ vmsg = [running |-> TRUE, before |-> <<>>]
    /\ q = <<>>
    /\ qcall = <<>>
    /\ vres = ""
    /\ gpbft = <<>>
    /\ net = <<>>

runnerOthers == <<q, qcall, vres, gpbft, net, sim>>

\* What GetChainForInstance may answer.
RunnerChainAnswers(p) == {[ok |-> FALSE, chain |-> Bottom], QueuedChainAt(p)}

\* case <-h.alertTimer.C
RunnerReceiveAlarm ==
    /\ vmsg.running
    /\ part.hostAlarm # NoAlarm
    /\ part.currentInstance <= MaxInstance
    /\ \E chain \in RunnerChainAnswers(part),
          committee \in CommitteeAnswers(part.currentInstance),
          order \in SenderOrdersFor(part), oracle \in OraclesFor(part) :
          /\ part' = participantReceiveAlarm(ConcFired(part), chain, committee,
                                             order, oracle)
          /\ RoundInBounds(part')
    /\ vmsg' = [running |-> part'.result = "", before |-> <<part>>]
    /\ UNCHANGED runnerOthers

\* case msg, ok := <-messageQueue
RunnerReceiveMessage ==
    /\ vmsg.running
    /\ part.received < MaxMsgs
    /\ \E msg \in RunnerMessages, oracle \in OraclesFor(part) :
          /\ part' = [participantReceiveMessage(part, msg, oracle)
                         EXCEPT !.received = @ + 1]
          /\ RoundInBounds(part')
    /\ vmsg' = [running |-> TRUE, before |-> <<>>]
    /\ UNCHANGED runnerOthers

RunnerNext == RunnerReceiveAlarm \/ RunnerReceiveMessage

SpecRunner == RunnerInit /\ [][RunnerNext]_vars

\* The alarm handed over last was to start an instance and a fetch failed.
RunnerFetchFailed ==
    /\ vmsg.before # <<>>
    /\ part.result \in {"failed fetching chain", "failed fetching committee"}

\* C25: a failed fetch of the chain or the committee at the start of an
\* instance is not fatal: no instance is created, current_instance and the
\* queued messages are as before, and the start is attempted again at a
\* later alarm: the loop is still running and an alarm is set.
C25_FetchFailureRetried ==
    RunnerFetchFailed =>
       /\ part.gpbft = NoInstance
       /\ part.currentInstance = vmsg.before[1].currentInstance
       /\ part.mqueue = vmsg.before[1].mqueue
       /\ vmsg.running
       /\ part.hostAlarm # NoAlarm

\* C25: the chain fetch for instance 1 failed with a message of instance 1
\* in the queue; the loop has returned and no alarm is set.
C25_RunnerStopped ==
    /\ RunnerFetchFailed
    /\ part.result = "failed fetching chain"
    /\ part.currentInstance = 1
    /\ queuedMessages(part.mqueue) # {}
    /\ ~vmsg.running
    /\ part.hostAlarm = NoAlarm

\* A failed fetch leaves the participant as it was, the fired alarm apart.
RunnerFailureKeepsState ==
    RunnerFetchFailed =>
       part = [ConcFired(vmsg.before[1]) EXCEPT !.result = part.result]

-----------------------------------------------------------------------------
(* SpecCertificate: the loop of gpbftRunner.Start with its channel of       *)
(* finality certificates.  A decision of the participant is saved as a      *)
(* certificate, which the store hands to the channel; the certificate       *)
(* exchange brings certificates of instances the participant has not       *)
(* decided.  The loop takes a certificate or a fired alarm before any       *)
(* message.  The run is followed up to the first StartInstanceAt that       *)
(* receiveCertificate asks for.                                             *)

CertChannelCap == 2

\* The DECIDE of participant 1 for each instance, and its QUALITY.
CertMessages ==
    {m \in ValidMessages({1}, 0..MaxInstance, {0}, {<<1, 2>>, <<2, 3>>}, {0, 2}) :
        /\ m.Vote.Step \in {QUALITY_PHASE, DECIDE_PHASE}
        /\ m.Vote.Value = <<m.Vote.Instance + 1, m.Vote.Instance + 2>>}

\* vmsg is the runner: the certificates in its channel and what the last
\* receiveCertificate did.
CertInit ==
    /\ sim = <<>>
    /\ part = [NewParticipant(Self, 0) EXCEPT !.result = "new",
                                              !.hostAlarm = <<"next", 0>>]
    /\ vmsg = [running |-> TRUE, certs |-> <<>>, call |-> <<>>]
    /\ q = <<>>
    /\ qcall = <<>>
    /\ vres = ""
    /\ gpbft = <<>>
    /\ net = <<>>

\* No StartInstanceAt has been asked for.
CertFollowed == vmsg.running /\ (IF vmsg.call = <<>> THEN TRUE ELSE ~vmsg.call[1].asks)

\* The certificates of the decisions saved during a call of the participant.
SavedCertificates(before, after) ==
    [n \in 1..(Len(after.decisions) - Len(before.decisions)) |->
        after.decisions[Len(before.decisions) + n][1].Vote.Instance]

\* What receiveCertificate does with certificate c: whether it asks the
\* participant to start an instance, and which.
receiveCertificate(currentInstance, c) ==
    LET nextInstance == c + 1
    IN  IF currentInstance <= nextInstance
        THEN [cert |-> c, current |-> currentInstance, asks |-> FALSE, instance |-> 0]
        ELSE [cert |-> c, current |-> currentInstance, asks |-> TRUE,
              instance |-> nextInstance]

\* case c, ok := <-finalityCertificates
CertReceiveCertificate ==
    /\ CertFollowed
    /\ vmsg.certs # <<>>
    /\ vmsg' = [vmsg EXCEPT !.certs = Tail(@),
                            !.call = <<receiveCertificate(part.currentInstance,
                                                          Head(vmsg.certs))>>]
    /\ UNCHANGED part
    /\ UNCHANGED runnerOthers

\* case <-h.alertTimer.C
CertReceiveAlarm ==
    /\ CertFollowed
    /\ part.hostAlarm # NoAlarm
    /\ part.currentInstance <= MaxInstance
    /\ \E chain \in RunnerChainAnswers(part),
          committee \in CommitteeAnswers(part.currentInstance),
          order \in SenderOrdersFor(part), oracle \in OraclesFor(part) :
          /\ part' = participantReceiveAlarm(ConcFired(part), chain, committee,
                                             order, oracle)
          /\ RoundInBounds(part')
    /\ vmsg' = [vmsg EXCEPT !.running = part'.result = "",
                            !.certs = @ \o SavedCertificates(part, part')]
    /\ UNCHANGED runnerOthers

\* case msg, ok := <-messageQueue, taken when no certificate is waiting
CertReceiveMessage ==
    /\ CertFollowed
    /\ vmsg.certs = <<>>
    /\ part.received < MaxMsgs
    /\ \E msg \in CertMessages, oracle \in OraclesFor(part) :
          /\ part' = [participantReceiveMessage(part, msg, oracle)
                         EXCEPT !.received = @ + 1]
          /\ RoundInBounds(part')
    /\ vmsg' = [vmsg EXCEPT !.certs = @ \o SavedCertificates(part, part')]
    /\ UNCHANGED runnerOthers

\* The certificate exchange stores the certificate of an instance that the
\* participant has not decided.
CertExchanged ==
    /\ CertFollowed
    /\ Len(vmsg.certs) < CertChannelCap
    /\ \E c \in part.currentInstance..MaxInstance :
          /\ \A n \in 1..Len(vmsg.certs) : vmsg.certs[n] < c
          /\ vmsg' = [vmsg EXCEPT !.certs = Append(@, c)]
    /\ UNCHANGED part
    /\ UNCHANGED runnerOthers

CertNext ==
    CertReceiveCertificate \/ CertReceiveAlarm \/ CertReceiveMessage \/ CertExchanged

SpecCertificate == CertInit /\ [][CertNext]_vars

\* The last certificate received.
CertCall == vmsg.call[1]

\* C40: receiveCertificate asks the participant to start instance c+1 only
\* when the participant's current instance is lower than c+1, and so never
\* asks for an instance earlier than the current one.
C40_StartsOnlyWhenBehind ==
    (vmsg.call # <<>> /\ CertCall.asks) =>
       /\ CertCall.current < CertCall.cert + 1
       /\ CertCall.instance >= CertCall.current

\* The participant has decided instances 0 and 1 and is at instance 2 when
\* the certificate of instance 0 is received: it is asked to start instance 1.
C40_MovedBack ==
    /\ vmsg.call # <<>>
    /\ CertCall.asks
    /\ CertCall.cert = 0
    /\ CertCall.current = 2
    /\ CertCall.instance = 1
    /\ Len(part.decisions) = 2

\* What the code does: it asks exactly when the current instance is beyond c+1.
CertStartsWhenAhead ==
    vmsg.call # <<>> => (CertCall.asks <=> CertCall.current > CertCall.cert + 1)

-----------------------------------------------------------------------------
(* SpecInstance: the instance of participant 2 for instance 0, driven       *)
(* through Start, Receive and ReceiveAlarm with any validated message of    *)
(* the two other participants, for its own chain, a rival one or bottom.    *)

InstanceValues == {<<1, 2>>, <<1, 3>>}

InstanceMessages == ValidMessages(Others, {0}, 0..MaxRound, InstanceValues, {0, 2})

\* The instance once a call on it is over; the model keeps what the call
\* returned, whether the alarm set last is still to fire, the DECIDE
\* messages handed to Receive and their number.
returned(g, i) ==
    [g EXCEPT !.i = [i EXCEPT !.err = "", !.panic = ""],
              !.result = IF i.panic # "" THEN "panic: " \o i.panic ELSE i.err]

InstanceInit ==
    /\ sim = <<>>
    /\ gpbft = [i |-> newInstance(Self, 0, <<1, 2>>, Table, Beacon(0)),
                decides |-> {},
                received |-> 0,
                result |-> "new"]
    /\ q = <<>>
    /\ qcall = <<>>
    /\ vmsg = <<>>
    /\ vres = ""
    /\ part = <<>>
    /\ net = <<>>

instanceOthers == <<q, qcall, vmsg, vres, part, net, sim>>

InstanceOracles ==
    IF gpbft.i.phase \in {CONVERGE_PHASE, COMMIT_PHASE} THEN InstanceValues ELSE {<<1, 2>>}

InstanceStart ==
    /\ gpbft.i.phase = INITIAL_PHASE
    /\ gpbft' = returned(gpbft, instanceStart(gpbft.i, <<1, 2>>))
    /\ UNCHANGED instanceOthers

InstanceReceive ==
    /\ gpbft.i.phase # INITIAL_PHASE
    /\ gpbft.received < MaxMsgs
    /\ \E msg \in InstanceMessages, oracle \in InstanceOracles :
          /\ gpbft' = [returned(gpbft, instanceReceive(gpbft.i, msg, oracle)) EXCEPT
                          !.received = @ + 1,
                          !.decides = IF msg.Vote.Step = DECIDE_PHASE /\ ~terminated(gpbft.i)
                                      THEN @ \cup {<<msg.Sender, msg.Vote.Value>>}
                                      ELSE @]
          /\ gpbft'.i.round <= MaxRound
    /\ UNCHANGED instanceOthers

\* The alarm set last fires once the phase timeout has passed.
InstanceReceiveAlarm ==
    /\ gpbft.i.alarmSet
    /\ \E oracle \in InstanceOracles :
          /\ gpbft' = returned(gpbft,
                          instanceReceiveAlarm([gpbft.i EXCEPT !.alarmSet = FALSE,
                                                               !.phaseTimeout = EXPIRED],
                                               oracle))
          /\ gpbft'.i.round <= MaxRound
    /\ UNCHANGED instanceOthers

\* Time passes the phase timeout before the alarm is delivered.
InstanceTimePasses ==
    /\ gpbft.i.phase \notin {INITIAL_PHASE, TERMINATED_PHASE}
    /\ gpbft.i.phaseTimeout = PENDING
    /\ gpbft' = [gpbft EXCEPT !.i.phaseTimeout = EXPIRED]
    /\ UNCHANGED instanceOthers

InstanceNext ==
    InstanceStart \/ InstanceReceive \/ InstanceReceiveAlarm \/ InstanceTimePasses

SpecInstance == InstanceInit /\ [][InstanceNext]_vars

\* The participants whose DECIDE for the chain the instance has received:
\* those of the messages handed to Receive, and its own once broadcast.
DecideSenders(chain) ==
    {d[1] : d \in {x \in gpbft.decides : x[2] = chain}} \cup
    {gpbft.i.out[n].Sender :
        n \in {k \in 1..Len(gpbft.i.out) :
                  /\ gpbft.i.out[k].Vote.Step = DECIDE_PHASE
                  /\ gpbft.i.out[k].Vote.Value = chain}}

\* The summed power of a set of participants.
RECURSIVE PowerOf(_)
PowerOf(ids) ==
    IF ids = {} THEN 0
    ELSE LET id == CHOOSE x \in ids : TRUE
         IN  PtPower(Table, id) + PowerOf(ids \ {id})

\* C3: the termination value of an instance is a justification for the
\* instance's id, round 0, step DECIDE and a non-bottom chain; its signers
\* are indices of the power table, of participants whose DECIDE for that
\* chain the instance received, with more than 2/3 of the total power, and
\* its aggregate is theirs over that vote.  A terminated instance has a
\* termination value.
C3_TerminationValue ==
    /\ terminated(gpbft.i) <=> gpbft.i.terminationValue # NoJustification
    /\ gpbft.i.terminationValue # NoJustification =>
          LET j == gpbft.i.terminationValue[1]
              ids == {Table.Entries[b + 1].ID :
                         b \in {x \in j.Signers : x < Len(Table.Entries)}}
          IN  /\ j.Vote.Instance = gpbft.i.instanceID
              /\ j.Vote.Round = 0
              /\ j.Vote.Step = DECIDE_PHASE
              /\ j.Vote.Value # Bottom
              /\ j.Vote.Value = gpbft.i.value
              /\ \A b \in j.Signers : b \in 0..(Len(Table.Entries) - 1)
              /\ ids \subseteq DecideSenders(j.Vote.Value)
              /\ 3 * PowerOf(ids) > 2 * Table.Total
              /\ 3 * PowerOf(DecideSenders(j.Vote.Value)) > 2 * Table.Total
              /\ j.Signature = {Sign(PubKeyOf(id), MarshalForSigning(j.Vote)) : id \in ids}
              /\ Cardinality(j.Signature) = Cardinality(j.Signers)

\* C3 witness: the instance has terminated on the rival chain, after a
\* DECIDE for its own chain too.
C3_Witness ==
    /\ terminated(gpbft.i)
    /\ gpbft.i.terminationValue[1].Vote.Value = <<1, 3>>
    /\ \E d \in gpbft.decides : d[2] = <<1, 2>>

-----------------------------------------------------------------------------
(* SpecTwin: two copies of the instance of SpecInstance, created alike and  *)
(* handed the same calls at the same host times.  Each copy walks its maps  *)
(* in an order of its own.  The calls go on for as long as the copies are   *)
(* the same.                                                                *)

TwinInit ==
    /\ sim = <<>>
    /\ gpbft = [i |-> newInstance(Self, 0, <<1, 2>>, Table, Beacon(0)),
                twin |-> newInstance(Self, 0, <<1, 2>>, Table, Beacon(0)),
                received |-> 0]
    /\ q = <<>>
    /\ qcall = <<>>
    /\ vmsg = <<>>
    /\ vres = ""
    /\ part = <<>>
    /\ net = <<>>

twinOthers == <<q, qcall, vmsg, vres, part, net, sim>>

\* The chains a map walk of the copy may meet first.
TwinOracles(i) ==
    IF i.phase \in {CONVERGE_PHASE, COMMIT_PHASE} THEN InstanceValues ELSE {<<1, 2>>}

\* The copy once a call on it is over.
TwinReturned(i) == [i EXCEPT !.err = "", !.panic = ""]

TwinStart ==
    /\ gpbft.i = gpbft.twin
    /\ gpbft.i.phase = INITIAL_PHASE
    /\ gpbft' = [gpbft EXCEPT !.i = TwinReturned(instanceStart(gpbft.i, <<1, 2>>)),
                              !.twin = TwinReturned(instanceStart(gpbft.twin, <<1, 2>>))]
    /\ UNCHANGED twinOthers

TwinReceive ==
    /\ gpbft.i = gpbft.twin
    /\ gpbft.i.phase # INITIAL_PHASE
    /\ gpbft.received < MaxMsgs
    /\ \E msg \in InstanceMessages,
          oracle \in TwinOracles(gpbft.i), other \in TwinOracles(gpbft.twin) :
          /\ gpbft' = [i |-> TwinReturned(instanceReceive(gpbft.i, msg, oracle)),
                       twin |-> TwinReturned(instanceReceive(gpbft.twin, msg, other)),
                       received |-> gpbft.received + 1]
          /\ gpbft'.i.round <= MaxRound
          /\ gpbft'.twin.round <= MaxRound
    /\ UNCHANGED twinOthers

TwinReceiveAlarm ==
    /\ gpbft.i = gpbft.twin
    /\ gpbft.i.alarmSet
    /\ \E oracle \in TwinOracles(gpbft.i), other \in TwinOracles(gpbft.twin) :
          /\ gpbft' = [gpbft EXCEPT
                          !.i = TwinReturned(instanceReceiveAlarm(
                                    [gpbft.i EXCEPT !.alarmSet = FALSE,
                                                    !.phaseTimeout = EXPIRED], oracle)),
                          !.twin = TwinReturned(instanceReceiveAlarm(
                                    [gpbft.twin EXCEPT !.alarmSet = FALSE,
                                                       !.phaseTimeout = EXPIRED], other))]
          /\ gpbft'.i.round <= MaxRound
          /\ gpbft'.twin.round <= MaxRound
    /\ UNCHANGED twinOthers

\* Time passes the phase timeout before the alarm is delivered.
TwinTimePasses ==
    /\ gpbft.i = gpbft.twin
    /\ gpbft.i.phase \notin {INITIAL_PHASE, TERMINATED_PHASE}
    /\ gpbft.i.phaseTimeout = PENDING
    /\ gpbft' = [gpbft EXCEPT !.i.phaseTimeout = EXPIRED, !.twin.phaseTimeout = EXPIRED]
    /\ UNCHANGED twinOthers

TwinNext == TwinStart \/ TwinReceive \/ TwinReceiveAlarm \/ TwinTimePasses

SpecTwin == TwinInit /\ [][TwinNext]_vars

\* What the claim compares of a copy.
TwinObserved(i) ==
    [phase |-> i.phase, round |-> i.round, proposal |-> i.proposal,
     value |-> i.value, candidates |-> i.candidates, out |-> i.out]

\* C24: two copies of an instance created alike and handed the same
\* messages and alarms at the same host times have the same phase, round,
\* proposal, value and candidates and have broadcast the same messages in
\* the same order.
C24_Deterministic ==
    TwinObserved(gpbft.i) = TwinObserved(gpbft.twin)

\* C24: the copies timed out of COMMIT(0) holding COMMITs for <<1, 2>> and
\* <<1, 3>> without a strong quorum; one went on to CONVERGE(1) with the
\* proposal <<1, 2>>, the other with <<1, 3>>.
C24_SwayedApart ==
    /\ gpbft.i.round = 1
    /\ gpbft.twin.round = 1
    /\ gpbft.i.rounds[0].committed = gpbft.twin.rounds[0].committed
    /\ swayValues(gpbft.i.rounds[0].committed) = {<<1, 2>>, <<1, 3>>}
    /\ ~FindStrongQuorumValue(gpbft.i.rounds[0].committed).found
    /\ gpbft.i.proposal = <<1, 2>>
    /\ gpbft.twin.proposal = <<1, 3>>
    /\ gpbft.i.out[Len(gpbft.i.out)].Vote.Step = CONVERGE_PHASE
    /\ gpbft.i.out[Len(gpbft.i.out)] # gpbft.twin.out[Len(gpbft.twin.out)]

-----------------------------------------------------------------------------
(* SpecInbox: the instance of SpecInstance with the loop of drainInbox      *)
(* taken one message at a time.  While a call is draining, the message at   *)
(* the head of the inbox has been processed and not yet removed: this is    *)
(* the inbox a call of Receive made from inside host.Broadcast meets.       *)

InboxMessages == ValidMessages(Others, {0}, {0}, InstanceValues, {0, 2})

\* The messages of the calls made from inside host.Broadcast.
InboxNested == {m \in InboxMessages : m.Vote.Step = QUALITY_PHASE}

\* The first two checks of Receive.
receiveRefused(i) ==
    IF terminated(i) THEN "senders message after decision"
    ELSE IF Len(i.inbox) > 0 THEN "senders message while already processing inbox"
    ELSE ""

enqueueInbox(i, msg) == [i EXCEPT !.inbox = Append(@, msg)]

\* One turn of the loop of drainInbox on the instance i of the call g: with
\* an empty inbox the call returns, otherwise the head is processed and
\* stays in the inbox.  ownDone lists the instance's own messages processed.
drainTurn(g, i, oracle) ==
    IF Len(i.inbox) = 0
    THEN [returned(g, i) EXCEPT !.busy = FALSE]
    ELSE TheOne({
           IF Failed(i1) THEN [returned(g, i1) EXCEPT !.busy = FALSE]
           ELSE [g EXCEPT !.i = i1, !.busy = TRUE,
                          !.ownDone = IF i.inbox[1].Sender = i.participantID
                                      THEN Append(@, i.inbox[1]) ELSE @] :
           i1 \in {receiveOne(i, i.inbox[1], oracle)}})

InboxInit ==
    /\ sim = <<>>
    /\ gpbft = [i |-> newInstance(Self, 0, <<1, 2>>, Table, Beacon(0)),
                busy |-> FALSE,
                ownDone |-> <<>>,
                received |-> 0,
                result |-> "new"]
    /\ q = <<>>
    /\ qcall = <<>>
    /\ vmsg = <<>>
    /\ vres = ""
    /\ part = <<>>
    /\ net = <<>>

inboxOthers == <<q, qcall, vres, part, net, sim>>

InboxStart ==
    /\ ~gpbft.busy
    /\ gpbft.i.phase = INITIAL_PHASE
    /\ gpbft' = TheOne({IF Failed(i1) THEN returned(gpbft, i1)
                        ELSE drainTurn(gpbft, i1, <<1, 2>>) :
                        i1 \in {beginQuality(gpbft.i)}})
    /\ vmsg' = <<>>
    /\ UNCHANGED inboxOthers

\* Receive called by the host between calls.
InboxReceive ==
    /\ ~gpbft.busy
    /\ gpbft.i.phase # INITIAL_PHASE
    /\ gpbft.received < MaxMsgs
    /\ \E msg \in InboxMessages, oracle \in InstanceOracles :
          /\ gpbft' = IF receiveRefused(gpbft.i) # ""
                      THEN [gpbft EXCEPT !.result = receiveRefused(gpbft.i),
                                         !.received = @ + 1]
                      ELSE [drainTurn(gpbft, enqueueInbox(gpbft.i, msg), oracle)
                               EXCEPT !.received = @ + 1]
          /\ vmsg' = <<[before |-> gpbft.i, msg |-> msg, nested |-> FALSE,
                        err |-> receiveRefused(gpbft.i)]>>
          /\ gpbft'.i.round <= MaxRound
    /\ UNCHANGED inboxOthers

\* Receive called from inside host.Broadcast while a call is draining; the
\* call runs to its end inside the outer one.
InboxReceiveNested ==
    /\ gpbft.busy
    /\ \E msg \in InboxNested, oracle \in InstanceOracles :
          LET i1 == instanceReceive(gpbft.i, msg, oracle)
          IN  /\ gpbft' = [gpbft EXCEPT !.i = [i1 EXCEPT !.err = "", !.panic = ""]]
              /\ vmsg' = <<[before |-> gpbft.i, msg |-> msg, nested |-> TRUE,
                            err |-> IF i1.panic # "" THEN "panic: " \o i1.panic
                                    ELSE i1.err]>>
    /\ UNCHANGED inboxOthers

InboxReceiveAlarm ==
    /\ ~gpbft.busy
    /\ gpbft.i.alarmSet
    /\ \E oracle \in InstanceOracles :
          /\ gpbft' = TheOne({IF Failed(i1) THEN returned(gpbft, i1)
                              ELSE drainTurn(gpbft, i1, oracle) :
                              i1 \in {tryCompletePhase([gpbft.i EXCEPT
                                                          !.alarmSet = FALSE,
                                                          !.phaseTimeout = EXPIRED],
                                                       oracle)}})
          /\ gpbft'.i.round <= MaxRound
    /\ vmsg' = <<>>
    /\ UNCHANGED inboxOthers

\* The loop of drainInbox removes the processed head and turns again.
InboxDrain ==
    /\ gpbft.busy
    /\ \E oracle \in InstanceOracles :
          /\ gpbft' = drainTurn(gpbft, [gpbft.i EXCEPT !.inbox = Tail(@)], oracle)
          /\ gpbft'.i.round <= MaxRound
    /\ vmsg' = <<>>
    /\ UNCHANGED inboxOthers

InboxNext ==
    InboxStart \/ InboxReceive \/ InboxReceiveNested \/ InboxReceiveAlarm \/ InboxDrain

SpecInbox == InboxInit /\ [][InboxNext]_vars

\* The instance's own messages still to be processed.
InboxPending ==
    IF gpbft.busy THEN Tail(gpbft.i.inbox) ELSE gpbft.i.inbox

\* C19: Receive returns an error and enqueues nothing when the inbox is not
\* empty or the instance has terminated; what the instance broadcasts is
\* appended to its own inbox and processed first-in first-out after the
\* message being processed; when Start, Receive or ReceiveAlarm returns
\* without error the inbox is empty.
C19_InboxDiscipline ==
    /\ \A n \in 1..Len(vmsg) :
          (terminated(vmsg[n].before) \/ Len(vmsg[n].before.inbox) > 0)
          => /\ vmsg[n].err # ""
             /\ gpbft.i = vmsg[n].before
    /\ gpbft.ownDone \o InboxPending = gpbft.i.out
    /\ (~gpbft.busy /\ gpbft.result \in {"", "senders message after decision"})
          => gpbft.i.inbox = <<>>

\* C19 witness: Receive, called while the instance was processing a received
\* message behind which a broadcast of its own waits, was refused.
C19_Witness ==
    /\ vmsg # <<>>
    /\ vmsg[1].nested
    /\ Len(gpbft.i.inbox) = 2
    /\ gpbft.i.inbox[1].Sender # Self
    /\ gpbft.i.inbox[2].Sender = Self
    /\ vmsg[1].err = "senders message while already processing inbox"

-----------------------------------------------------------------------------
(* SpecPhase: the instance of participant 2 with the input <<1, 2, 3>>,     *)
(* taken one phase attempt at a time: the attempt of ReceiveAlarm, and each *)
(* receiveOne of the loop of drainInbox, is a step of its own, and vmsg     *)
(* keeps the instance before the last attempt and the message it processed. *)

PhaseInput == <<1, 2, 3>>

PhaseValues == {<<1, 2, 3>>, <<1, 2>>, <<1, 4>>}

PhaseMessages == ValidMessages(Others, {0}, 0..MaxRound, PhaseValues, {0, 2})

PhaseInit ==
    /\ sim = <<>>
    /\ gpbft = [i |-> newInstance(Self, 0, PhaseInput, Table, Beacon(0)),
                busy |-> FALSE,
                received |-> 0,
                result |-> "new"]
    /\ q = <<>>
    /\ qcall = <<>>
    /\ vmsg = <<>>
    /\ vres = ""
    /\ part = <<>>
    /\ net = <<>>

phaseOthers == <<q, qcall, vres, part, net, sim>>

\* The chains a map walk of the attempt may meet first.
PhaseOracles(i) ==
    IF i.phase \in {CONVERGE_PHASE, COMMIT_PHASE} THEN PhaseValues ELSE {PhaseInput}

\* The call goes on into drainInbox, or returns the error.
PhaseGoesOn(g, i) ==
    IF Failed(i) THEN [returned(g, i) EXCEPT !.busy = FALSE]
    ELSE [g EXCEPT !.i = i, !.busy = TRUE, !.result = ""]

PhaseStart ==
    /\ ~gpbft.busy
    /\ gpbft.i.phase = INITIAL_PHASE
    /\ gpbft' = PhaseGoesOn(gpbft, beginQuality(gpbft.i))
    /\ vmsg' = <<>>
    /\ UNCHANGED phaseOthers

\* Receive puts the message into the inbox.
PhaseReceive ==
    /\ ~gpbft.busy
    /\ gpbft.i.phase \notin {INITIAL_PHASE, TERMINATED_PHASE}
    /\ gpbft.received < MaxMsgs
    /\ \E msg \in PhaseMessages :
          gpbft' = [gpbft EXCEPT !.i = enqueueInbox(gpbft.i, msg), !.busy = TRUE,
                                 !.received = @ + 1, !.result = ""]
    /\ vmsg' = <<>>
    /\ UNCHANGED phaseOthers

\* ReceiveAlarm attempts to complete the phase: the timeout has passed.
PhaseReceiveAlarm ==
    /\ ~gpbft.busy
    /\ gpbft.i.alarmSet
    /\ LET fired == [gpbft.i EXCEPT !.alarmSet = FALSE, !.phaseTimeout = EXPIRED]
       IN  \E oracle \in PhaseOracles(gpbft.i) :
              /\ gpbft' = PhaseGoesOn(gpbft, tryCompletePhase(fired, oracle))
              /\ vmsg' = <<[before |-> fired, msg |-> <<>>]>>
              /\ gpbft'.i.round <= MaxRound
    /\ UNCHANGED phaseOthers

\* One turn of the loop of drainInbox, or its end.
PhaseTurn ==
    /\ gpbft.busy
    /\ IF Len(gpbft.i.inbox) = 0
       THEN /\ gpbft' = [gpbft EXCEPT !.busy = FALSE, !.result = ""]
            /\ vmsg' = <<>>
       ELSE \E oracle \in PhaseOracles(gpbft.i) :
               /\ gpbft' = TheOne({
                     IF Failed(i1) THEN [returned(gpbft, i1) EXCEPT !.busy = FALSE]
                     ELSE [gpbft EXCEPT !.i = [i1 EXCEPT !.inbox = Tail(@)],
                                        !.result = ""] :
                     i1 \in {receiveOne(gpbft.i, gpbft.i.inbox[1], oracle)}})
               /\ vmsg' = <<[before |-> gpbft.i, msg |-> <<gpbft.i.inbox[1]>>]>>
               /\ gpbft'.i.round <= MaxRound
    /\ UNCHANGED phaseOthers

\* Time passes the phase timeout before the alarm is delivered.
PhaseTimePasses ==
    /\ ~gpbft.busy
    /\ gpbft.i.phase \notin {INITIAL_PHASE, TERMINATED_PHASE}
    /\ gpbft.i.phaseTimeout = PENDING
    /\ gpbft' = [gpbft EXCEPT !.i.phaseTimeout = EXPIRED]
    /\ vmsg' = <<>>
    /\ UNCHANGED phaseOthers

PhaseNext ==
    PhaseStart \/ PhaseReceive \/ PhaseReceiveAlarm \/ PhaseTurn \/ PhaseTimePasses

SpecPhase == PhaseInit /\ [][PhaseNext]_vars

\* The last attempt to complete a phase: the instance before it, the message
\* it processed (none for the alarm), the instance after it.
PhaseAttempted == vmsg # <<>> /\ gpbft.result = ""

PhaseBefore == vmsg[1].before

PhaseAfter == gpbft.i

PhaseOnAlarm == vmsg[1].msg = <<>>

PhaseMsg == vmsg[1].msg[1]

\* The trackers the attempt looks at: the message is stored before it.
PhaseSeen == IF PhaseOnAlarm THEN PhaseBefore ELSE receiveStep(PhaseBefore, PhaseMsg)

\* The attempt has run the try function of the phase the instance was in.
PhaseTried(phase) ==
    /\ PhaseAttempted
    /\ PhaseBefore.phase = phase
    /\ PhaseOnAlarm \/ PhaseMsg.Vote.Step \notin {COMMIT_PHASE, DECIDE_PHASE}

PhaseSent == PhaseAfter.out[Len(PhaseAfter.out)]

PhaseSentOne == Len(PhaseAfter.out) = Len(PhaseBefore.out) + 1

\* The longest prefix of the chain with a strong quorum in the tracker, the
\* base chain when there is none.
LongestQuorumPrefix(qs, chain) ==
    LET with == {l \in 0..(Len(chain) - 1) : HasStrongQuorumFor(qs, Key(Prefix(chain, l)))}
    IN  IF with = {} THEN BaseChain(chain)
        ELSE Prefix(chain, CHOOSE l \in with : \A m \in with : m <= l)

RECURSIVE SignersPower(_, _)
SignersPower(pt, signers) ==
    IF signers = {} THEN 0
    ELSE LET s == CHOOSE x \in signers : TRUE
         IN  pt.Entries[s + 1].Power + SignersPower(pt, signers \ {s})

\* The justification aggregates votes of the tracker for the value that come
\* from a strong quorum of power.
AggregatesQuorum(j, qs, pt, round, step, value) ==
    /\ j # NoJustification
    /\ j[1].Vote = MkPayload(0, round, step, value)
    /\ \A s \in j[1].Signers : s \in 0..(Len(pt.Entries) - 1)
    /\ hasStrongQuorum(SignersPower(pt, j[1].Signers), pt.Total)
    /\ Key(value) \in DOMAIN qs.chainSupport
    /\ \A s \in j[1].Signers :
          pt.Entries[s + 1].ID \in DOMAIN qs.chainSupport[Key(value)].signatures
    /\ j[1].Signature =
          {qs.chainSupport[Key(value)].signatures[pt.Entries[s + 1].ID] : s \in j[1].Signers}

\* C27: an attempt in PREPARE(r) moves the instance to COMMIT(r) exactly when
\* the proposal has a strong quorum of PREPARE in round r, and it then
\* commits the proposal justified by a strong quorum of those votes, or the
\* timeout has expired with PREPARE votes from a strong quorum of power, and
\* it then commits bottom without justification; with both, the proposal.
C27_PrepareExit ==
    PhaseTried(PREPARE_PHASE) =>
       LET r == PhaseBefore.round
           prepared == roundState(PhaseSeen, r).prepared
           quorum == HasStrongQuorumFor(prepared, Key(PhaseBefore.proposal))
           expired == PhaseBefore.phaseTimeout = EXPIRED
           votes == ReceivedFromStrongQuorum(prepared, PhaseBefore.powerTable)
       IN  /\ PhaseAfter.phase # PREPARE_PHASE <=> quorum \/ (expired /\ votes)
           /\ PhaseAfter.phase # PREPARE_PHASE =>
                 /\ PhaseAfter.phase = COMMIT_PHASE
                 /\ PhaseAfter.round = r
                 /\ PhaseAfter.proposal = PhaseBefore.proposal
                 /\ PhaseSentOne
                 /\ PhaseSent.Sender = Self
                 /\ IF quorum
                    THEN /\ PhaseAfter.value = PhaseBefore.proposal
                         /\ PhaseSent.Vote =
                               MkPayload(0, r, COMMIT_PHASE, PhaseBefore.proposal)
                         /\ AggregatesQuorum(PhaseSent.Justification, prepared,
                                             PhaseBefore.powerTable, r, PREPARE_PHASE,
                                             PhaseBefore.proposal)
                    ELSE /\ PhaseAfter.value = Bottom
                         /\ PhaseSent.Vote = MkPayload(0, r, COMMIT_PHASE, Bottom)
                         /\ PhaseSent.Justification = NoJustification

\* The proposal reaches its quorum of PREPARE after the timeout has expired
\* with votes from a strong quorum of power, and is committed.
C27_BothHold ==
    /\ PhaseTried(PREPARE_PHASE)
    /\ PhaseBefore.phaseTimeout = EXPIRED
    /\ ReceivedFromStrongQuorum(roundState(PhaseSeen, PhaseBefore.round).prepared,
                                PhaseBefore.powerTable)
    /\ HasStrongQuorumFor(roundState(PhaseSeen, PhaseBefore.round).prepared,
                          Key(PhaseBefore.proposal))
    /\ PhaseAfter.phase = COMMIT_PHASE
    /\ PhaseSent.Vote.Value = PhaseBefore.proposal


\* The attempt processed a COMMIT message that gave a non-bottom value its
\* strong quorum in the COMMIT tracker of the round of the message, in an
\* instance that had not decided.
CommitQuorumReached ==
    /\ PhaseAttempted
    /\ ~PhaseOnAlarm
    /\ PhaseMsg.Vote.Step = COMMIT_PHASE
    /\ ~IsZero(PhaseMsg.Vote.Value)
    /\ PhaseBefore.phase \notin {DECIDE_PHASE, TERMINATED_PHASE}
    /\ ~HasStrongQuorumFor(roundState(PhaseBefore, PhaseMsg.Vote.Round).committed,
                           Key(PhaseMsg.Vote.Value))
    /\ HasStrongQuorumFor(roundState(PhaseSeen, PhaseMsg.Vote.Round).committed,
                          Key(PhaseMsg.Vote.Value))

\* C28: a COMMIT message that gives a non-bottom value v its strong quorum
\* in the COMMIT tracker of any round r, in an instance that is not in
\* DECIDE or TERMINATED, makes the instance set value = v, enter DECIDE and
\* broadcast DECIDE(0, v) justified by a strong quorum of COMMIT(r, v).
C28_CommitStaysOpen ==
    CommitQuorumReached =>
       /\ PhaseAfter.phase = DECIDE_PHASE
       /\ PhaseAfter.value = PhaseMsg.Vote.Value
       /\ PhaseSentOne
       /\ PhaseSent.Sender = Self
       /\ PhaseSent.Vote = MkPayload(0, 0, DECIDE_PHASE, PhaseMsg.Vote.Value)
       /\ AggregatesQuorum(PhaseSent.Justification,
                           roundState(PhaseSeen, PhaseMsg.Vote.Round).committed,
                           PhaseBefore.powerTable, PhaseMsg.Vote.Round, COMMIT_PHASE,
                           PhaseMsg.Vote.Value)

\* A late COMMIT of round 0 decides an instance that has moved on to round 1.
C28_LateCommitDecides ==
    /\ CommitQuorumReached
    /\ PhaseBefore.round = 1
    /\ PhaseMsg.Vote.Round = 0
    /\ PhaseAfter.phase = DECIDE_PHASE


\* The COMMIT tracker of the round the instance was in, as the attempt saw it.
CommittedSeen == roundState(PhaseSeen, PhaseBefore.round).committed

\* C29: the round advances only from COMMIT(r) to CONVERGE(r+1), with the
\* timeout expired, COMMIT votes of round r from a strong quorum of power
\* and no non-bottom value with a strong quorum; the proposal is unchanged
\* when bottom has the strong quorum and otherwise a non-bottom value of the
\* COMMIT tracker of round r that is a candidate afterwards; before the
\* timeout the round does not advance.
C29_NextRound ==
    PhaseAttempted =>
       /\ PhaseAfter.round # PhaseBefore.round =>
             /\ PhaseBefore.phase = COMMIT_PHASE
             /\ PhaseAfter.round = PhaseBefore.round + 1
             /\ PhaseAfter.phase = CONVERGE_PHASE
             /\ PhaseBefore.phaseTimeout = EXPIRED
             /\ ReceivedFromStrongQuorum(CommittedSeen, PhaseBefore.powerTable)
             /\ \A v \in ListAllValues(CommittedSeen) :
                   ~IsZero(v) => ~HasStrongQuorumFor(CommittedSeen, Key(v))
             /\ IF HasStrongQuorumFor(CommittedSeen, Key(Bottom))
                THEN PhaseAfter.proposal = PhaseBefore.proposal
                ELSE /\ ~IsZero(PhaseAfter.proposal)
                     /\ PhaseAfter.proposal \in ListAllValues(CommittedSeen)
                     /\ PhaseAfter.proposal \in PhaseAfter.candidates
       /\ PhaseBefore.phase = COMMIT_PHASE /\ PhaseBefore.phaseTimeout # EXPIRED =>
             \/ PhaseAfter.round = PhaseBefore.round /\ PhaseAfter.phase = COMMIT_PHASE
             \/ PhaseAfter.phase \in {DECIDE_PHASE, TERMINATED_PHASE}

\* The timeout of COMMIT(0) moves the instance to CONVERGE(1) with a
\* proposal taken from a COMMIT of another participant.
C29_SwayedByCommit ==
    /\ PhaseAttempted
    /\ PhaseBefore.phase = COMMIT_PHASE
    /\ PhaseAfter.round = PhaseBefore.round + 1
    /\ PhaseAfter.phase = CONVERGE_PHASE
    /\ PhaseAfter.proposal # PhaseBefore.proposal
    /\ PhaseAfter.proposal \notin PhaseBefore.candidates


\* The attempt began CONVERGE.
ConvergeBegun ==
    /\ PhaseAttempted
    /\ PhaseBefore.phase # CONVERGE_PHASE
    /\ PhaseAfter.phase = CONVERGE_PHASE

\* C30: an instance that begins CONVERGE(r) broadcasts CONVERGE(r, proposal)
\* with a justification, which aggregates a strong quorum of COMMIT for
\* bottom of round r-1 or else is the justification stored from a COMMIT of
\* round r-1 for exactly the proposal; beginConverge never panics for want of
\* one.
C30_ConvergeJustified ==
    /\ gpbft.result # "panic: beginConverge called but no justification for proposal"
    /\ ConvergeBegun =>
          LET r == PhaseAfter.round
              committed == roundState(PhaseAfter, r - 1).committed
              stored == committed.receivedJustification
          IN  /\ r >= 1
              /\ PhaseSentOne
              /\ PhaseSent.Sender = Self
              /\ PhaseSent.Vote = MkPayload(0, r, CONVERGE_PHASE, PhaseAfter.proposal)
              /\ PhaseSent.Justification # NoJustification
              /\ IF HasStrongQuorumFor(committed, Key(Bottom))
                 THEN AggregatesQuorum(PhaseSent.Justification, committed,
                                       PhaseAfter.powerTable, r - 1, COMMIT_PHASE, Bottom)
                 ELSE /\ Key(PhaseAfter.proposal) \in DOMAIN stored
                      /\ PhaseSent.Justification = stored[Key(PhaseAfter.proposal)]
                      /\ PhaseSent.Justification[1].Vote =
                            MkPayload(0, r - 1, PREPARE_PHASE, PhaseAfter.proposal)
                      /\ Key(PhaseAfter.proposal) \in DOMAIN committed.chainSupport

\* CONVERGE(1) begins on the justification stored from a COMMIT of round 0.
C30_StoredJustificationUsed ==
    /\ ConvergeBegun
    /\ PhaseAfter.round = 1
    /\ ~HasStrongQuorumFor(roundState(PhaseAfter, 0).committed, Key(Bottom))
    /\ PhaseSent.Vote.Step = CONVERGE_PHASE
    /\ PhaseSent.Justification =
          roundState(PhaseAfter, 0).committed.receivedJustification[Key(PhaseAfter.proposal)]


\* The attempt processed a DECIDE message of another participant.
DecideProcessed ==
    /\ PhaseAttempted
    /\ ~PhaseOnAlarm
    /\ PhaseMsg.Vote.Step = DECIDE_PHASE
    /\ PhaseMsg.Sender # Self

\* C34: a DECIDE message for v processed in a phase before DECIDE makes the
\* instance set proposal = value = v, enter DECIDE and broadcast DECIDE(0, v)
\* with the justification of the message; the sender is counted in the
\* decision tracker; a DECIDE processed in DECIDE causes no broadcast.
C34_SkipToDecide ==
    DecideProcessed =>
       /\ PhaseBefore.phase \in QUALITY_PHASE..COMMIT_PHASE =>
             /\ PhaseAfter.phase = DECIDE_PHASE
             /\ PhaseAfter.proposal = PhaseMsg.Vote.Value
             /\ PhaseAfter.value = PhaseMsg.Vote.Value
             /\ PhaseSentOne
             /\ PhaseSent.Sender = Self
             /\ PhaseSent.Vote = MkPayload(0, 0, DECIDE_PHASE, PhaseMsg.Vote.Value)
             /\ PhaseSent.Justification = PhaseMsg.Justification
             /\ PhaseMsg.Sender \in PhaseAfter.decision.senders
             /\ PhaseAfter.decision.sendersTotalPower =
                   PhaseBefore.decision.sendersTotalPower +
                      PtPower(PhaseBefore.powerTable, PhaseMsg.Sender)
             /\ PhaseMsg.Sender \in
                   DOMAIN PhaseAfter.decision.chainSupport[Key(PhaseMsg.Vote.Value)].signatures
       /\ PhaseBefore.phase = DECIDE_PHASE =>
             /\ PhaseAfter.out = PhaseBefore.out
             /\ PhaseAfter.phase \in {DECIDE_PHASE, TERMINATED_PHASE}
             /\ PhaseMsg.Sender \in PhaseAfter.decision.senders

\* An instance in PREPARE skips to DECIDE for a value that was not its
\* proposal.
C34_SkippedFromPrepare ==
    /\ DecideProcessed
    /\ PhaseBefore.phase = PREPARE_PHASE
    /\ PhaseBefore.proposal # PhaseMsg.Vote.Value
    /\ PhaseAfter.phase = DECIDE_PHASE
    /\ PhaseAfter.proposal = PhaseMsg.Vote.Value
    /\ PhaseSent.Vote.Step = DECIDE_PHASE


\* The state of the instance the protocol works on.
ProtocolState(i) ==
    [phase |-> i.phase, round |-> i.round, proposal |-> i.proposal, value |-> i.value,
     candidates |-> i.candidates, terminationValue |-> i.terminationValue,
     quality |-> i.quality, rounds |-> i.rounds, decision |-> i.decision, out |-> i.out]

\* The phases that may follow a phase, with the round they are entered in.
PhaseFollows(a, b) ==
    CASE a.phase = INITIAL_PHASE ->
            b.phase = QUALITY_PHASE /\ b.round = 0
      [] a.phase = QUALITY_PHASE ->
            b.phase \in {PREPARE_PHASE, DECIDE_PHASE} /\ b.round = 0
      [] a.phase = CONVERGE_PHASE ->
            b.phase \in {PREPARE_PHASE, DECIDE_PHASE} /\ b.round = a.round
      [] a.phase = PREPARE_PHASE ->
            b.phase \in {COMMIT_PHASE, DECIDE_PHASE} /\ b.round = a.round
      [] a.phase = COMMIT_PHASE ->
            \/ b.phase = CONVERGE_PHASE /\ b.round = a.round + 1
            \/ b.phase = DECIDE_PHASE /\ b.round = a.round
      [] a.phase = DECIDE_PHASE ->
            b.phase = TERMINATED_PHASE /\ b.round = a.round
      [] OTHER -> FALSE

\* C35: in every step the round stays or grows by one, and grows only from
\* COMMIT(r) to CONVERGE(r+1); a phase is followed by the next phase of the
\* order INITIAL, QUALITY, PREPARE, COMMIT, CONVERGE, PREPARE, COMMIT, ..., or
\* by DECIDE from any phase after INITIAL; DECIDE is followed by TERMINATED
\* only, and nothing of a terminated instance changes.
C35_PhaseOrder ==
    [][LET a == gpbft.i
           b == gpbft'.i
       IN  /\ b.round >= a.round
           /\ b.round # a.round =>
                 /\ b.round = a.round + 1
                 /\ a.phase = COMMIT_PHASE
                 /\ b.phase = CONVERGE_PHASE
           /\ b.phase # a.phase => PhaseFollows(a, b)
           /\ a.phase = TERMINATED_PHASE => ProtocolState(b) = ProtocolState(a)]_vars

\* The instance has terminated in round 1.
C35_TerminatedInRoundOne ==
    /\ gpbft.i.phase = TERMINATED_PHASE
    /\ gpbft.i.round = 1
    /\ gpbft.i.terminationValue # NoJustification


\* C36: the instance has broadcast at most one message for each round and
\* phase, and so at most one DECIDE, which is always of round 0.
C36_NoDoubleVote ==
    /\ \A n, m \in 1..Len(gpbft.i.out) :
          (/\ gpbft.i.out[n].Vote.Round = gpbft.i.out[m].Vote.Round
           /\ gpbft.i.out[n].Vote.Step = gpbft.i.out[m].Vote.Step) => n = m
    /\ \A n \in 1..Len(gpbft.i.out) :
          /\ gpbft.i.out[n].Sender = Self
          /\ gpbft.i.out[n].Vote.Step \in {QUALITY_PHASE, DECIDE_PHASE} =>
                gpbft.i.out[n].Vote.Round = 0

\* The instance has voted in every phase of round 0, begun round 1 and
\* decided: five messages, one of each phase.
C36_VotedThroughout ==
    /\ Len(gpbft.i.out) = 5
    /\ {gpbft.i.out[n].Vote.Step : n \in 1..Len(gpbft.i.out)} =
          {QUALITY_PHASE, PREPARE_PHASE, COMMIT_PHASE, CONVERGE_PHASE, DECIDE_PHASE}
    /\ gpbft.i.phase = DECIDE_PHASE


-----------------------------------------------------------------------------
(* SpecTicket: one converge state of a round.  It receives CONVERGE values   *)
(* with tickets from the three participants of Table, in any order, and      *)
(* FindMaxTicketProposal is applied to it; the state keeps the first         *)
(* message of every sender next to the converge state.                      *)

TicketValues == {<<1, 2>>, <<1, 3>>}

TicketsOf(sender) ==
    {MakeTicket(Beacon(0), 0, r, PubKeyOf(sender)) : r \in 0..MaxUint64}

TicketInit ==
    /\ sim = <<>>
    /\ gpbft = [cs |-> newConvergeState, seen |-> <<>>, found |-> <<>>]
    /\ q = <<>>
    /\ qcall = <<>>
    /\ vmsg = <<>>
    /\ vres = ""
    /\ part = <<>>
    /\ net = <<>>

ticketOthers == <<q, qcall, vmsg, vres, part, net, sim>>

TicketReceive ==
    \E sender \in 1..3, value \in TicketValues :
       \E ticket \in TicketsOf(sender) :
          /\ gpbft' = [cs |-> convergeReceive(gpbft.cs, sender, value, ticket,
                                              NoJustification),
                       seen |-> IF \E n \in 1..Len(gpbft.seen) :
                                      gpbft.seen[n].Sender = sender
                                THEN gpbft.seen
                                ELSE Append(gpbft.seen,
                                            [Sender |-> sender, Value |-> value,
                                             Ticket |-> ticket]),
                       found |-> <<>>]
          /\ UNCHANGED ticketOthers

TicketFind ==
    /\ gpbft.found = <<>>
    /\ \E oracle \in TicketValues :
          gpbft' = [gpbft EXCEPT !.found =
                       <<FindMaxTicketProposal(gpbft.cs, Table, oracle)>>]
    /\ UNCHANGED ticketOthers

TicketNext == TicketReceive \/ TicketFind

SpecTicket == TicketInit /\ [][TicketNext]_vars

\* The weighted ticket of a CONVERGE message: the ticket read as an integer
\* times the power of its sender.
WeightedTicket(m) == TicketAsInt(m.Ticket) * PtPower(Table, m.Sender)

\* C33: FindMaxTicketProposal returns the value of a CONVERGE message with
\* the largest weighted ticket among the messages received from distinct
\* senders, and bottom when there is none.
C33_MaxTicketOfAll ==
    gpbft.found # <<>> =>
       IF gpbft.seen = <<>> THEN IsZero(gpbft.found[1].Chain)
       ELSE \E n \in 1..Len(gpbft.seen) :
               /\ gpbft.seen[n].Value = gpbft.found[1].Chain
               /\ \A m \in 1..Len(gpbft.seen) :
                     WeightedTicket(gpbft.seen[m]) <= WeightedTicket(gpbft.seen[n])

\* The largest ticket came second for its value and was not kept: the value
\* returned is the one whose only ticket is smaller.
C33_LaterTicketDropped ==
    /\ gpbft.found # <<>>
    /\ Len(gpbft.seen) = 3
    /\ gpbft.seen[1].Value = gpbft.seen[3].Value
    /\ gpbft.seen[2].Value # gpbft.seen[1].Value
    /\ WeightedTicket(gpbft.seen[1]) < WeightedTicket(gpbft.seen[2])
    /\ WeightedTicket(gpbft.seen[2]) < WeightedTicket(gpbft.seen[3])
    /\ gpbft.found[1].Chain = gpbft.seen[2].Value
    /\ Len(gpbft.cs.tickets[Key(gpbft.seen[1].Value)]) = 1

\* Of the tickets kept by the converge state the largest wins, and an empty
\* converge state gives bottom.
TicketMaxOfKept ==
    gpbft.found # <<>> =>
       IF DOMAIN gpbft.cs.values = {} THEN IsZero(gpbft.found[1].Chain)
       ELSE \E n \in 1..Len(gpbft.seen) :
               /\ gpbft.seen[n].Value = gpbft.found[1].Chain
               /\ \A m \in 1..(n - 1) : gpbft.seen[m].Value # gpbft.seen[n].Value
               /\ \A m \in 1..Len(gpbft.seen) :
                     (\A k \in 1..(m - 1) : gpbft.seen[k].Value # gpbft.seen[m].Value)
                        => WeightedTicket(gpbft.seen[m]) <= WeightedTicket(gpbft.seen[n])

-----------------------------------------------------------------------------
(* SpecConverge: the instance of participant 2 for instance 1, with the      *)
(* steps of SpecPhase, followed through round 0 and CONVERGE(1).  In this    *)
(* instance the weighted tickets of round 1 are 33, 20 and 10 for the       *)
(* participants 1, 3 and 2, so the ticket of another participant wins.      *)

ConvMaxMsgs == 4

ConvInput == <<1, 2>>

ConvValues == {<<1>>, <<1, 2>>, <<1, 3>>}

\* PREPARE and COMMIT messages of round 0 from participant 1 and CONVERGE
\* messages of round 1 from both.
ConvMessages ==
    {m \in ValidMessages(Others, {1}, 0..1, ConvValues, {0, 2}) :
        \/ m.Vote.Round = 0 /\ m.Vote.Step \in {PREPARE_PHASE, COMMIT_PHASE}
                             /\ m.Sender = 1
        \/ m.Vote.Round = 1 /\ m.Vote.Step = CONVERGE_PHASE}

ConvInit ==
    /\ sim = <<>>
    /\ gpbft = [i |-> newInstance(Self, 1, ConvInput, Table, Beacon(1)),
                busy |-> FALSE,
                received |-> 0,
                result |-> "new"]
    /\ q = <<>>
    /\ qcall = <<>>
    /\ vmsg = <<>>
    /\ vres = ""
    /\ part = <<>>
    /\ net = <<>>

\* The part of the run that is followed.
ConvOpen(i) == i.round = 0 \/ i.phase = CONVERGE_PHASE

ConvStart ==
    /\ ~gpbft.busy
    /\ gpbft.i.phase = INITIAL_PHASE
    /\ gpbft' = PhaseGoesOn(gpbft, beginQuality(gpbft.i))
    /\ vmsg' = <<>>
    /\ UNCHANGED phaseOthers

ConvReceive ==
    /\ ~gpbft.busy
    /\ gpbft.i.phase \notin {INITIAL_PHASE, TERMINATED_PHASE}
    /\ ConvOpen(gpbft.i)
    /\ gpbft.received < ConvMaxMsgs
    /\ \E msg \in ConvMessages :
          gpbft' = [gpbft EXCEPT !.i = enqueueInbox(gpbft.i, msg), !.busy = TRUE,
                                 !.received = @ + 1, !.result = ""]
    /\ vmsg' = <<>>
    /\ UNCHANGED phaseOthers

ConvReceiveAlarm ==
    /\ ~gpbft.busy
    /\ gpbft.i.alarmSet
    /\ ConvOpen(gpbft.i)
    /\ LET fired == [gpbft.i EXCEPT !.alarmSet = FALSE, !.phaseTimeout = EXPIRED]
       IN  \E oracle \in ConvValues :
              /\ gpbft' = PhaseGoesOn(gpbft, tryCompletePhase(fired, oracle))
              /\ vmsg' = <<[before |-> fired, msg |-> <<>>]>>
    /\ UNCHANGED phaseOthers

ConvTurn ==
    /\ gpbft.busy
    /\ IF Len(gpbft.i.inbox) = 0
       THEN /\ gpbft' = [gpbft EXCEPT !.busy = FALSE, !.result = ""]
            /\ vmsg' = <<>>
       ELSE \E oracle \in ConvValues :
               /\ gpbft' = TheOne({
                     IF Failed(i1) THEN [returned(gpbft, i1) EXCEPT !.busy = FALSE]
                     ELSE [gpbft EXCEPT !.i = [i1 EXCEPT !.inbox = Tail(@)],
                                        !.result = ""] :
                     i1 \in {receiveOne(gpbft.i, gpbft.i.inbox[1], oracle)}})
               /\ vmsg' = <<[before |-> gpbft.i, msg |-> <<gpbft.i.inbox[1]>>]>>
    /\ UNCHANGED phaseOthers

ConvTimePasses ==
    /\ ~gpbft.busy
    /\ gpbft.i.phase \notin {INITIAL_PHASE, TERMINATED_PHASE}
    /\ ConvOpen(gpbft.i)
    /\ gpbft.i.phaseTimeout = PENDING
    /\ gpbft' = [gpbft EXCEPT !.i.phaseTimeout = EXPIRED]
    /\ vmsg' = <<>>
    /\ UNCHANGED phaseOthers

ConvNext == ConvStart \/ ConvReceive \/ ConvReceiveAlarm \/ ConvTurn \/ ConvTimePasses

SpecConverge == ConvInit /\ [][ConvNext]_vars

\* C31: an attempt made in CONVERGE before the timeout leaves the instance
\* in CONVERGE and broadcasts nothing, whatever CONVERGE messages have been
\* received; an attempt that takes the instance from CONVERGE to PREPARE was
\* made with the timeout expired.
C31_ConvergeWaits ==
    /\ PhaseTried(CONVERGE_PHASE) /\ PhaseBefore.phaseTimeout # EXPIRED =>
          /\ PhaseAfter.phase = CONVERGE_PHASE
          /\ PhaseAfter.round = PhaseBefore.round
          /\ PhaseAfter.out = PhaseBefore.out
    /\ (PhaseAttempted /\ PhaseBefore.phase = CONVERGE_PHASE
           /\ PhaseAfter.phase = PREPARE_PHASE) =>
          PhaseBefore.phaseTimeout = EXPIRED

\* The CONVERGE messages of the whole power table are in before the timeout
\* and the instance stays in CONVERGE.
C31_AllConvergedEarly ==
    /\ PhaseTried(CONVERGE_PHASE)
    /\ ~PhaseOnAlarm
    /\ PhaseBefore.phaseTimeout # EXPIRED
    /\ roundState(PhaseSeen, PhaseBefore.round).converged.senders = {1, 2, 3}
    /\ PhaseAfter.phase = CONVERGE_PHASE

\* C32: at the end of CONVERGE(r) the proposal becomes the max-ticket winner
\* when the winner is a candidate, or is none but carries a PREPARE
\* justification while round r-1 has no strong quorum of COMMIT for bottom
\* (the winner then joins the candidates); otherwise the proposal stays and
\* PREPARE(r) carries the justification the converge state holds for it;
\* the PREPARE(r) broadcast is for the resulting proposal.
C32_ConvergeExit ==
    (PhaseTried(CONVERGE_PHASE) /\ PhaseAfter.phase = PREPARE_PHASE) =>
       LET r == PhaseBefore.round
           cs == roundState(PhaseSeen, r).converged
           last == roundState(PhaseSeen, r - 1).committed
       IN  /\ PhaseAfter.round = r
           /\ PhaseSentOne
           /\ PhaseSent.Sender = Self
           /\ PhaseSent.Vote =
                 MkPayload(PhaseBefore.instanceID, r, PREPARE_PHASE, PhaseAfter.proposal)
           /\ PhaseAfter.value = PhaseAfter.proposal
           /\ \E winner \in MaxTicketProposals(cs, PhaseBefore.powerTable) :
                 LET known == winner.Chain \in PhaseBefore.candidates
                     sway == /\ ~known
                             /\ winner.Justification # NoJustification
                             /\ winner.Justification[1].Vote.Step = PREPARE_PHASE
                             /\ ~HasStrongQuorumFor(last, Key(Bottom))
                 IN  IF known \/ sway
                     THEN /\ PhaseAfter.proposal = winner.Chain
                          /\ PhaseAfter.candidates =
                                PhaseBefore.candidates \cup {winner.Chain}
                          /\ PhaseSent.Justification = winner.Justification
                     ELSE /\ PhaseAfter.proposal = PhaseBefore.proposal
                          /\ PhaseAfter.candidates = PhaseBefore.candidates
                          /\ Key(PhaseBefore.proposal) \in DOMAIN cs.values
                          /\ PhaseSent.Justification =
                                cs.values[Key(PhaseBefore.proposal)].Justification

\* The winner is no candidate and round 0 had a strong quorum of COMMIT for
\* bottom: the instance keeps its proposal and sends its own justification.
C32_FellBack ==
    /\ PhaseTried(CONVERGE_PHASE)
    /\ PhaseAfter.phase = PREPARE_PHASE
    /\ HasStrongQuorumFor(roundState(PhaseSeen, 0).committed, Key(Bottom))
    /\ \A winner \in MaxTicketProposals(roundState(PhaseSeen, 1).converged,
                                        PhaseBefore.powerTable) :
          /\ winner.Chain \notin PhaseBefore.candidates
          /\ winner.Justification[1].Vote.Step = PREPARE_PHASE
    /\ PhaseAfter.proposal = PhaseBefore.proposal
    /\ PhaseSent.Vote.Value = PhaseBefore.proposal


-----------------------------------------------------------------------------
(* SpecBroadcast: SpecConverge with the DECIDE messages of participant 1    *)
(* among the messages received, so that the instance broadcasts in every    *)
(* phase, skips to DECIDE and falls back to its own proposal.               *)

BroadcastMessages ==
    ConvMessages \cup
    {m \in ValidMessages({1}, {1}, {0}, ConvValues, {0, 2}) : m.Vote.Step = DECIDE_PHASE}

BroadcastReceive ==
    /\ ~gpbft.busy
    /\ gpbft.i.phase \notin {INITIAL_PHASE, TERMINATED_PHASE}
    /\ ConvOpen(gpbft.i)
    /\ gpbft.received < ConvMaxMsgs
    /\ \E msg \in BroadcastMessages :
          gpbft' = [gpbft EXCEPT !.i = enqueueInbox(gpbft.i, msg), !.busy = TRUE,
                                 !.received = @ + 1, !.result = ""]
    /\ vmsg' = <<>>
    /\ UNCHANGED phaseOthers

BroadcastNext ==
    ConvStart \/ BroadcastReceive \/ ConvReceiveAlarm \/ ConvTurn \/ ConvTimePasses

SpecBroadcast == ConvInit /\ [][BroadcastNext]_vars

\* Another correct participant of the same instance: same committee, beacon
\* and base, its own input.
Peer(i) == newInstance(1, i.instanceID, BaseChain(i.input), i.powerTable, i.beacon)

\* The messages the instance has broadcast.
Broadcasts == {gpbft.i.out[n] : n \in 1..Len(gpbft.i.out)}

\* C38: every message the instance has broadcast is accepted by the
\* validateMessage of another correct participant of the same instance.
C38_BroadcastsValid ==
    \A m \in Broadcasts : validateMessage(Peer(gpbft.i), m) = "ok"

\* The instance has fallen back to its own proposal at the end of CONVERGE
\* and its PREPARE of round 1 carries the justification of its own CONVERGE.
C38_FallbackPrepareSent ==
    /\ PhaseTried(CONVERGE_PHASE)
    /\ PhaseSentOne
    /\ PhaseSent.Vote.Step = PREPARE_PHASE
    /\ PhaseSent.Vote.Round = 1
    /\ PhaseSent.Vote.Value = PhaseBefore.proposal
    /\ \A winner \in MaxTicketProposals(roundState(PhaseSeen, 1).converged,
                                        PhaseBefore.powerTable) :
          winner.Chain # PhaseBefore.proposal
    /\ {m.Vote.Step : m \in Broadcasts} = QUALITY_PHASE..COMMIT_PHASE

\* C39: the candidates hold the base chain of the input and never lose a
\* member; the proposal is never bottom; in PREPARE, COMMIT and CONVERGE the
\* proposal is a candidate, and in round 0 it is a prefix of the input.
C39_CandidatesKept ==
    /\ [](/\ BaseChain(gpbft.i.input) \in gpbft.i.candidates
          /\ ~IsZero(gpbft.i.proposal)
          /\ gpbft.i.phase \in {PREPARE_PHASE, COMMIT_PHASE, CONVERGE_PHASE} =>
                gpbft.i.proposal \in gpbft.i.candidates
          /\ (gpbft.i.phase \in {PREPARE_PHASE, COMMIT_PHASE} /\ gpbft.i.round = 0) =>
                HasPrefix(gpbft.i.input, gpbft.i.proposal))
    /\ [][gpbft.i.candidates \subseteq gpbft'.i.candidates]_vars

\* The instance is in CONVERGE(1) with a proposal that is no prefix of its
\* input: it was swayed to it by a COMMIT and it is among the candidates.
C39_SwayedCandidate ==
    /\ gpbft.i.phase = CONVERGE_PHASE
    /\ gpbft.i.round = 1
    /\ ~HasPrefix(gpbft.i.input, gpbft.i.proposal)
    /\ gpbft.i.proposal \in gpbft.i.candidates
    /\ BaseChain(gpbft.i.input) \in gpbft.i.candidates
    /\ gpbft.i.proposal # BaseChain(gpbft.i.input)

-----------------------------------------------------------------------------
(* SpecNet: instance 0 among three participants of power 3, 2 and 2.        *)
(* Participants 1 and 2 run the program on different chains; participant 3, *)
(* with 2/7 of the power, deviates: it sends any message that passes        *)
(* validation, to either of the others, at any time and any number of       *)
(* times.  It signs with its own key only, so a justification it sends      *)
(* carries the signature of participant 1 or 2 only over a payload that     *)
(* participant has broadcast.  Messages are delivered in any order, or      *)
(* never, and alarms fire at any time after the phase timeout.              *)

NetHonest == {1, 2}

NetInput(id) == IF id = 1 THEN <<1, 2>> ELSE <<1, 3>>

NetValues == {<<1, 2>>, <<1, 3>>}

\* The sets of table indices a justification may be signed by.
NetSigners == {{0, 1}, {0, 2}, {1, 2}}

\* The messages participant 3 may send, its justifications' signatures aside.
NetDeviantMessages ==
    UNION {ValidMessages({3}, {0}, {0}, NetValues, signers) : signers \in NetSigners}

\* The messages participants 1 and 2 have broadcast.
NetBroadcasts ==
    UNION {{net[id].broadcasts[n] : n \in 1..Len(net[id].broadcasts)} : id \in NetHonest}

\* Participant 3 holds the signature of every signer of the justification.
NetSigned(msg) ==
    \/ msg.Justification = NoJustification
    \/ \A b \in msg.Justification[1].Signers :
          Table.Entries[b + 1].ID \in NetHonest =>
             \E sent \in NetBroadcasts :
                /\ sent.Sender = Table.Entries[b + 1].ID
                /\ sent.Vote = msg.Justification[1].Vote

\* The chains a map walk of the running call may meet first.
NetOraclesFor(p) ==
    IF p.gpbft # NoInstance /\ p.gpbft[1].phase \in {CONVERGE_PHASE, COMMIT_PHASE}
    THEN NetValues \cup {<<1>>} ELSE {<<1, 2>>}

\* The rounds of the model end at MaxRound.
NetRoundInBounds(p) ==
    IF p.gpbft = NoInstance THEN TRUE ELSE p.gpbft[1].round <= MaxRound

\* ReceiveMessage, and the count of the messages that changed the participant.
NetReceived(p, msg, oracle) ==
    TheOne({IF p1 = p THEN p ELSE [p1 EXCEPT !.received = @ + 1] :
            p1 \in {participantReceiveMessage(p, msg, oracle)}})

NetInit ==
    /\ sim = <<>>
    /\ net = [id \in NetHonest |-> [NewParticipant(id, 0) EXCEPT !.result = "new"]]
    /\ q = <<>>
    /\ qcall = <<>>
    /\ vmsg = <<>>
    /\ vres = ""
    /\ part = <<>>
    /\ gpbft = <<>>

netOthers == <<q, qcall, vmsg, vres, part, gpbft, sim>>

NetStart ==
    /\ \E id \in NetHonest :
          /\ net[id].result = "new"
          /\ net' = [net EXCEPT ![id] =
                        participantStart(@, [ok |-> TRUE, chain |-> NetInput(id)],
                                         [ok |-> TRUE, power |-> Table, beacon |-> Beacon(0)],
                                         <<1, 3>>, <<1, 2>>)]
    /\ UNCHANGED netOthers

\* A message the other correct participant has broadcast arrives.
NetReceiveMessage ==
    /\ \E id \in NetHonest :
          /\ net[id].gpbft # NoInstance
          /\ net[id].received < NetMaxMsgs
          /\ \E msg \in {m \in NetBroadcasts : m.Sender # id},
                oracle \in NetOraclesFor(net[id]) :
                /\ net' = [net EXCEPT ![id] = NetReceived(@, msg, oracle)]
                /\ NetRoundInBounds(net'[id])
    /\ UNCHANGED netOthers

\* A message of participant 3 arrives.
NetReceiveDeviant ==
    /\ \E id \in NetHonest :
          /\ net[id].gpbft # NoInstance
          /\ net[id].received < NetMaxMsgs
          /\ \E msg \in {m \in NetDeviantMessages : NetSigned(m)},
                oracle \in NetOraclesFor(net[id]) :
                /\ net' = [net EXCEPT ![id] = NetReceived(@, msg, oracle)]
                /\ NetRoundInBounds(net'[id])
    /\ UNCHANGED netOthers

\* The phase timeout of a participant has passed and its alarm fires.
NetReceiveAlarm ==
    /\ \E id \in NetHonest :
          /\ net[id].gpbft # NoInstance
          /\ net[id].hostAlarm = PhaseAlarm
          /\ LET fired == [net[id] EXCEPT
                              !.hostAlarm = NoAlarm,
                              !.gpbft = <<[@[1] EXCEPT !.phaseTimeout = EXPIRED]>>]
             IN  \E oracle \in NetOraclesFor(net[id]) :
                    /\ net' = [net EXCEPT ![id] =
                                  participantReceiveAlarm(fired,
                                      [ok |-> TRUE, chain |-> NetInput(id)],
                                      [ok |-> TRUE, power |-> Table, beacon |-> Beacon(0)],
                                      <<1, 3>>, oracle)]
                    /\ NetRoundInBounds(net'[id])
    /\ UNCHANGED netOthers

NetNext == NetStart \/ NetReceiveMessage \/ NetReceiveDeviant \/ NetReceiveAlarm

SpecNet == NetInit /\ [][NetNext]_vars

\* The chain a participant has decided on for instance 0.
NetDecided(id) == net[id].decisions[1][1].Vote.Value

\* C1: two correct participants that have terminated instance 0 have
\* termination values with the same chain, whatever participant 3, holding
\* less than 1/3 of the power, has sent and in whatever order messages and
\* alarms have arrived.
C1_Agreement ==
    \A a \in NetHonest, b \in NetHonest :
        (Len(net[a].decisions) > 0 /\ Len(net[b].decisions) > 0) =>
            NetDecided(a) = NetDecided(b)

\* C1 witness: both correct participants have terminated instance 0 on the
\* chain of participant 1, which participant 2 never voted for before its
\* DECIDE: the quorums for it are those of participants 1 and 3.
C1_Witness ==
    /\ \A id \in NetHonest : Len(net[id].decisions) > 0
    /\ NetDecided(2) = NetInput(1)

-----------------------------------------------------------------------------
(* SpecThreshold: hasStrongQuorum and hasWeakQuorum called with every part  *)
(* and total in 0..MaxThresholdPower.  qcall holds the call made last and   *)
(* what it returned.                                                        *)

ThresholdPowers == 0..MaxThresholdPower

ThresholdInit ==
    /\ sim = <<>>
    /\ qcall = [op |-> "none", part |-> 0, total |-> 0, result |-> FALSE]
    /\ q = <<>>
    /\ vmsg = <<>>
    /\ vres = ""
    /\ part = <<>>
    /\ gpbft = <<>>
    /\ net = <<>>

thresholdOthers == <<q, vmsg, vres, part, gpbft, net, sim>>

ThresholdStrong ==
    /\ \E p \in ThresholdPowers, total \in ThresholdPowers :
          qcall' = [op |-> "hasStrongQuorum", part |-> p, total |-> total,
                    result |-> hasStrongQuorum(p, total)]
    /\ UNCHANGED thresholdOthers

ThresholdWeak ==
    /\ \E p \in ThresholdPowers, total \in ThresholdPowers :
          qcall' = [op |-> "hasWeakQuorum", part |-> p, total |-> total,
                    result |-> hasWeakQuorum(p, total)]
    /\ UNCHANGED thresholdOthers

ThresholdNext == ThresholdStrong \/ ThresholdWeak

SpecThreshold == ThresholdInit /\ [][ThresholdNext]_vars

\* C11: hasStrongQuorum(part, total) is 3*part > 2*total and
\* hasWeakQuorum(part, total) is 3*part > total, for every part and total,
\* whether total is divisible by 3 or not; power of exactly 2/3 of the total
\* is no strong quorum.
C11_ExactThresholds ==
    /\ qcall.op = "hasStrongQuorum" => (qcall.result <=> 3 * qcall.part > 2 * qcall.total)
    /\ qcall.op = "hasWeakQuorum" => (qcall.result <=> 3 * qcall.part > qcall.total)

\* C11 witness: power of exactly 2/3 of a total of 30 is answered "no strong
\* quorum".
C11_Witness ==
    /\ qcall.op = "hasStrongQuorum"
    /\ qcall.total = 30
    /\ qcall.part = 20
    /\ ~qcall.result

-----------------------------------------------------------------------------
(* SpecSim: participants on the simulated network.  The network keeps one   *)
(* queue of messages and alarms in flight, ordered by delivery time, and    *)
(* delivers its first entry at each tick.  Time is counted in units of the  *)
(* synchrony parameter delta.                                               *)

\* An alarm that is due as soon as it is set.
SimAlarmDelayNone(round) == 0

\* The delay of the alarm alarmAfterSynchrony sets in a round.
SimAlarmDelay(round) == 2 * (SimDelta * SimBackoff^round)

\* messageQueue.Insert: before the first entry due at or after x.
SimInsert(queue, x) ==
    LET later == {n \in 1..Len(queue) : queue[n].deliverAt >= x.deliverAt}
        at == IF later = {} THEN Len(queue) + 1
              ELSE CHOOSE n \in later : \A m \in later : n <= m
    IN  SubSeq(queue, 1, at - 1) \o <<x>> \o SubSeq(queue, at, Len(queue))

\* Network.Broadcast: one entry for every other participant, in the order of
\* participantIDs; latency[k] is the sample drawn for destination k.
RECURSIVE SimBroadcastTo(_, _, _, _, _)
SimBroadcastTo(queue, ids, msg, clock, latency) ==
    IF Len(ids) = 0 THEN queue
    ELSE SimBroadcastTo(
            IF ids[1] = msg.Sender THEN queue
            ELSE SimInsert(queue, [dest |-> ids[1], kind |-> "msg", payload |-> <<msg>>,
                                   deliverAt |-> clock + latency[ids[1]]]),
            Tail(ids), msg, clock, latency)

RECURSIVE SimBroadcastAll(_, _, _, _, _)
SimBroadcastAll(queue, ids, msgs, clock, latency) ==
    IF Len(msgs) = 0 THEN queue
    ELSE SimBroadcastAll(SimBroadcastTo(queue, ids, msgs[1], clock, latency),
                         ids, Tail(msgs), clock, latency)

\* Clock.SetAlarm: the alarm of the participant, in place of the alarm it set
\* before.
SimDropAlarm(queue, id) ==
    SelectSeq(queue, LAMBDA e : ~(e.kind = "alarm" /\ e.dest = id))

SimSetAlarm(queue, id, at) ==
    SimInsert(SimDropAlarm(queue, id),
              [dest |-> id, kind |-> "alarm", payload |-> <<>>, deliverAt |-> at])

\* The participant as a call at the given time finds it: host.Time() has
\* reached the phase timeout or not.
SimAtClock(p, timeoutAt, clock) ==
    IF p.gpbft = NoInstance THEN [p EXCEPT !.hostAlarm = NoAlarm]
    ELSE [p EXCEPT !.hostAlarm = NoAlarm,
                   !.gpbft = <<[@[1] EXCEPT !.phaseTimeout =
                                   IF clock >= timeoutAt THEN EXPIRED ELSE PENDING]>>]

\* The messages the call that took the participant from p to p1 broadcast.
SimSent(p, p1) ==
    IF p.gpbft # NoInstance
    THEN SubSeq(p1.broadcasts, Len(p.broadcasts) + 1, Len(p1.broadcasts))
    ELSE IF p1.gpbft # NoInstance \/ Len(p1.decisions) > Len(p.decisions)
    THEN p1.broadcasts
    ELSE <<>>

\* The scenarios: the power of each participant (participant n has ID n) and
\* the chain each proposes in instance 0.
SimScenarios ==
    {"singleton", "pair", "pairDisagree", "agreement", "threeWay", "twoThirds",
     "halves", "majority", "longestCommonPrefix", "divergence"}

SimPowers(scn) ==
    CASE scn = "singleton" -> <<1>>
      [] scn \in {"pair", "pairDisagree"} -> <<1, 1>>
      [] scn = "twoThirdsPower" -> <<2, 1>>
      [] scn = "majorityPower" -> <<3, 1>>
      [] scn \in {"agreement", "threeWay", "twoThirds", "divergence"} -> <<1, 1, 1>>
      [] OTHER -> <<1, 1, 1, 1>>

SimInputs(scn) ==
    CASE scn = "singleton" -> <<(<<1, 2>>)>>
      [] scn = "pair" -> <<(<<1, 2>>), <<1, 2>>>>
      [] scn \in {"pairDisagree", "twoThirdsPower", "majorityPower"} ->
            <<(<<1, 2>>), <<1, 3>>>>
      [] scn \in {"agreement", "divergence"} -> <<(<<1, 2>>), <<1, 2>>, <<1, 2>>>>
      [] scn = "threeWay" -> <<(<<1, 2>>), <<1, 3>>, <<1, 4>>>>
      [] scn = "twoThirds" -> <<(<<1, 2>>), <<1, 2>>, <<1, 3>>>>
      [] scn = "halves" -> <<(<<1, 2>>), <<1, 2>>, <<1, 3>>, <<1, 3>>>>
      [] scn = "majority" -> <<(<<1, 2>>), <<1, 2>>, <<1, 2>>, <<1, 3>>>>
      [] OTHER -> <<(<<1, 2, 3>>), <<1, 2, 4>>, <<1, 2, 5>>, <<1, 2, 6>>>>

\* The participants, one for each input.
SimIDs(scn) == 1..Len(SimInputs(scn))

SimTable(scn) ==
    MkTable([n \in 1..Len(SimPowers(scn)) |-> Entry(n, SimPowers(scn)[n])])

SimChain(scn, id) == [ok |-> TRUE, chain |-> SimInputs(scn)[id]]

SimCommittee(scn) == [ok |-> TRUE, power |-> SimTable(scn), beacon |-> Beacon(0)]

\* The instances a scenario runs.
SimInstances(scn) == IF scn = "divergence" THEN SimInstanceCount ELSE 1

\* GetChainForInstance of a participant's host: the scenario's input in
\* instance 0; later a chain on the head the participant finalised, the same
\* for all participants before instance SimDivergeAt and a different one for
\* each participant from then on.
SimChainAt(scn, p) ==
    IF p.currentInstance = 0 THEN SimChain(scn, p.id)
    ELSE IF p.currentInstance >= SimInstances(scn) THEN [ok |-> FALSE, chain |-> <<>>]
    ELSE LET base == ChainHead(p.finalised[1].Vote.Value)
         IN  [ok |-> TRUE,
              chain |-> IF p.currentInstance < SimDivergeAt THEN <<base, base + 1>>
                        ELSE <<base, base + 1 + p.id>>]

SimCommitteeAt(scn, p) ==
    [ok |-> TRUE, power |-> SimTable(scn), beacon |-> Beacon(p.currentInstance)]

\* participantIDs, and the order in which a map walk meets the senders.
SimOrder(scn) == [n \in SimIDs(scn) |-> n]

\* The chains a map walk of a call may meet first.
SimOracles(scn) == {SimInputs(scn)[n] : n \in SimIDs(scn)}

\* The network once a call made at its clock has returned: the alarm the
\* participant set is in the queue and its broadcasts are in flight.
\* nextStart is the time to the next instance ReceiveDecision answers.
SimAfterCall(s, id, p, p1, latency, nextStart) ==
    LET alarmed ==
            IF p1.hostAlarm = PhaseAlarm
            THEN SimSetAlarm(s.queue, id, s.clock + SimAlarmDelay(p1.gpbft[1].round))
            ELSE IF p1.hostAlarm = NoAlarm THEN s.queue
            ELSE IF p1.currentInstance < SimInstances(s.scn)
            THEN SimSetAlarm(s.queue, id, s.clock + nextStart)
            ELSE SimDropAlarm(s.queue, id)
    IN  [s EXCEPT !.parts[id] = p1,
                  !.timeoutAt[id] = IF p1.hostAlarm = PhaseAlarm
                                    THEN s.clock + SimAlarmDelay(p1.gpbft[1].round)
                                    ELSE @,
                  !.queue = SimBroadcastAll(alarmed, SimOrder(s.scn), SimSent(p, p1),
                                            s.clock, latency)]

SimSynchronous(scn) == [n \in SimIDs(scn) |-> 0]

SimInit ==
    /\ \E scn \in SimScenarios :
          sim = [scn |-> scn,
                 clock |-> 0,
                 ticks |-> 0,
                 queue |-> <<>>,
                 started |-> {},
                 timeoutAt |-> [n \in SimIDs(scn) |-> 0],
                 parts |-> [n \in SimIDs(scn) |-> NewParticipant(n, 0)]]
    /\ q = <<>>
    /\ qcall = <<>>
    /\ vmsg = <<>>
    /\ vres = ""
    /\ part = <<>>
    /\ gpbft = <<>>
    /\ net = <<>>

simOthers == <<q, qcall, vmsg, vres, part, gpbft, net>>

\* The simulation starts every participant before its first tick.
SimStart ==
    /\ \E id \in SimIDs(sim.scn) \ sim.started, oracle \in SimOracles(sim.scn) :
          sim' = TheOne({[SimAfterCall(sim, id, sim.parts[id], p1, SimSynchronous(sim.scn),
                                       SimDelta)
                             EXCEPT !.started = @ \cup {id}] :
                         p1 \in {participantStart(SimAtClock(sim.parts[id], 0, 0),
                                                  SimChain(sim.scn, id),
                                                  SimCommittee(sim.scn),
                                                  SimOrder(sim.scn), oracle)}})
    /\ UNCHANGED simOthers

\* Network.Tick: the first entry of the queue is delivered at its time.
SimTick ==
    /\ sim.started = SimIDs(sim.scn)
    /\ Len(sim.queue) > 0
    /\ \E oracle \in SimOracles(sim.scn), nextStart \in {0, SimDelta} :
          LET entry == sim.queue[1]
              id == entry.dest
              s == [sim EXCEPT !.queue = Tail(@), !.clock = entry.deliverAt,
                               !.ticks = @ + 1]
              p == SimAtClock(sim.parts[id], sim.timeoutAt[id], entry.deliverAt)
          IN  sim' = TheOne({SimAfterCall(s, id, p, p1, SimSynchronous(sim.scn), nextStart) :
                             p1 \in {IF entry.kind = "alarm"
                                     THEN participantReceiveAlarm(p, SimChainAt(sim.scn, p),
                                              SimCommitteeAt(sim.scn, p), SimOrder(sim.scn),
                                              oracle)
                                     ELSE participantReceiveMessage(p, entry.payload[1],
                                                                    oracle)}})
    /\ UNCHANGED simOthers

SimNext == SimStart \/ SimTick

SpecSim == SimInit /\ [][SimNext]_vars

SimDecided(id) == Len(sim.parts[id].decisions) > 0

SimDecision(id) == sim.parts[id].decisions[1][1].Vote.Value

SimFinished == sim.started = SimIDs(sim.scn) /\ Len(sim.queue) = 0

\* The scenarios in which every participant proposes one chain.
SimAgreeing == {"singleton", "pair", "agreement"}

\* C12: with correct participants only, one input for all and synchronous
\* delivery, no participant leaves round 0, every decision is the whole
\* input chain, every participant has decided once the run is over, and a
\* single participant of power 1 has decided when its Start returns, its
\* decision signed by signer index 0 alone.
C12_SyncAgreement ==
    sim.scn \in SimAgreeing =>
       /\ \A id \in SimIDs(sim.scn) :
             /\ sim.parts[id].gpbft # NoInstance => sim.parts[id].gpbft[1].round = 0
             /\ SimDecided(id) =>
                   /\ SimDecision(id) = SimInputs(sim.scn)[id]
                   /\ sim.parts[id].terminatedDuringRound = 0
             /\ SimFinished => SimDecided(id)
       /\ sim.scn = "singleton" /\ 1 \in sim.started =>
             /\ sim.ticks = 0
             /\ SimDecided(1)
             /\ sim.parts[1].decisions[1][1].Signers = {0}

C12_Witness ==
    /\ sim.scn = "agreement"
    /\ SimFinished
    /\ sim.ticks > 0
    /\ \A id \in SimIDs(sim.scn) : SimDecided(id) /\ SimDecision(id) = <<1, 2>>

\* The power of the participants whose input extends the chain.
SimSupport(scn, c) ==
    LET Sum[n \in 0..Len(SimInputs(scn))] ==
            IF n = 0 THEN 0
            ELSE Sum[n - 1] + (IF HasPrefix(SimInputs(scn)[n], c) THEN SimPowers(scn)[n]
                               ELSE 0)
    IN  Sum[Len(SimInputs(scn))]

\* The prefixes of the inputs that more than 2/3 of the power proposes.
SimSupported(scn) ==
    {c \in UNION {{Prefix(SimInputs(scn)[n], l) : l \in 0..(Len(SimInputs(scn)[n]) - 1)} :
                     n \in SimIDs(scn)} :
        3 * SimSupport(scn, c) > 2 * SimTable(scn).Total}

\* The longest of them, the base chain when there is none.
SimExpected(scn) ==
    IF SimSupported(scn) = {} THEN BaseChain(SimInputs(scn)[1])
    ELSE CHOOSE c \in SimSupported(scn) : \A d \in SimSupported(scn) : Len(d) <= Len(c)

\* C13: with correct participants only and synchronous delivery, no
\* participant leaves round 0, every decision is the longest prefix that more
\* than 2/3 of the power proposed (the base chain for inputs that share only
\* the base: two-way, three-way, 50/50; [base, X] for four inputs that share
\* it), and every participant has decided once the run is over.
C13_SyncLongestPrefix ==
    \A id \in SimIDs(sim.scn) :
       /\ sim.parts[id].gpbft # NoInstance => sim.parts[id].gpbft[1].round = 0
       /\ SimFinished => SimDecided(id)
       /\ SimDecided(id) =>
             /\ sim.parts[id].terminatedDuringRound = 0
             /\ SimDecision(id) = SimExpected(sim.scn)
             /\ sim.scn \in {"pairDisagree", "threeWay", "halves", "twoThirds"} =>
                   SimDecision(id) = <<1>>
             /\ sim.scn = "longestCommonPrefix" => SimDecision(id) = <<1, 2>>

C13_Witness ==
    /\ sim.scn = "longestCommonPrefix"
    /\ SimFinished
    /\ \A id \in SimIDs(sim.scn) : SimDecided(id) /\ SimDecision(id) = <<1, 2>>

-----------------------------------------------------------------------------
(* SpecAsync: correct participants under arbitrary delays.  A message that  *)
(* was broadcast arrives at any later point, in any order with the others,  *)
(* and a phase alarm fires at any point after it was set.                   *)

\* Two participants: equal power, 2 of 3 of the power, 3 of 4 of the power.
AsyncScenarios == {"pair", "pairDisagree", "twoThirdsPower", "majorityPower"}

AsyncBroadcasts ==
    UNION {{sim.parts[id].broadcasts[n] : n \in 1..Len(sim.parts[id].broadcasts)} :
              id \in SimIDs(sim.scn)}

AsyncOraclesFor(p) ==
    IF p.gpbft # NoInstance /\ p.gpbft[1].phase \in {CONVERGE_PHASE, COMMIT_PHASE}
    THEN SimOracles(sim.scn) \cup {<<1>>} ELSE {<<1>>}

AsyncRoundInBounds(p) ==
    IF p.gpbft = NoInstance THEN TRUE ELSE p.gpbft[1].round <= MaxRound

AsyncInit ==
    /\ \E scn \in AsyncScenarios :
          sim = [scn |-> scn,
                 clock |-> 0,
                 ticks |-> 0,
                 queue |-> <<>>,
                 started |-> {},
                 timeoutAt |-> [n \in SimIDs(scn) |-> 0],
                 parts |-> [n \in SimIDs(scn) |-> NewParticipant(n, 0)]]
    /\ q = <<>>
    /\ qcall = <<>>
    /\ vmsg = <<>>
    /\ vres = ""
    /\ part = <<>>
    /\ gpbft = <<>>
    /\ net = <<>>

AsyncStart ==
    /\ \E id \in SimIDs(sim.scn) \ sim.started :
          sim' = [sim EXCEPT !.started = @ \cup {id},
                             !.parts[id] = participantStart(@, SimChain(sim.scn, id),
                                               SimCommittee(sim.scn), SimOrder(sim.scn),
                                               <<1>>)]
    /\ UNCHANGED simOthers

AsyncReceiveMessage ==
    /\ \E id \in SimIDs(sim.scn) :
          \E msg \in {m \in AsyncBroadcasts : m.Sender # id},
             oracle \in AsyncOraclesFor(sim.parts[id]) :
             /\ sim' = [sim EXCEPT !.parts[id] = participantReceiveMessage(@, msg, oracle)]
             /\ AsyncRoundInBounds(sim'.parts[id])
    /\ UNCHANGED simOthers

AsyncReceiveAlarm ==
    /\ \E id \in SimIDs(sim.scn) :
          /\ sim.parts[id].gpbft # NoInstance
          /\ sim.parts[id].hostAlarm = PhaseAlarm
          /\ LET fired == [sim.parts[id] EXCEPT
                              !.hostAlarm = NoAlarm,
                              !.gpbft = <<[@[1] EXCEPT !.phaseTimeout = EXPIRED]>>]
             IN  \E oracle \in AsyncOraclesFor(sim.parts[id]) :
                    /\ sim' = [sim EXCEPT !.parts[id] =
                                  participantReceiveAlarm(fired, SimChain(sim.scn, id),
                                      SimCommittee(sim.scn), SimOrder(sim.scn), oracle)]
                    /\ AsyncRoundInBounds(sim'.parts[id])
    /\ UNCHANGED simOthers

AsyncNext == AsyncStart \/ AsyncReceiveMessage \/ AsyncReceiveAlarm

SpecAsync == AsyncInit /\ [][AsyncNext]_vars

\* C14: with correct participants only and arbitrary delays, every decision
\* is a prefix of an input that more than 2/3 of the power proposed (the base
\* chain at least); a chain proposed by exactly 2/3 of the power is not
\* decided, the base chain is; and when more than 2/3 proposes A and the rest
\* a chain sharing only the base, no tipset outside A is decided.
C14_AsyncDecisions ==
    \A id \in SimIDs(sim.scn) :
       SimDecided(id) =>
          /\ SimDecision(id) \in SimSupported(sim.scn) \cup {<<1>>}
          /\ sim.scn = "twoThirdsPower" => SimDecision(id) = <<1>>
          /\ sim.scn = "majorityPower" => HasPrefix(<<1, 2>>, SimDecision(id))

C14_Witness ==
    /\ sim.scn = "twoThirdsPower"
    /\ \A id \in SimIDs(sim.scn) : SimDecided(id) /\ SimDecision(id) = <<1>>

\* The chain decided by the participant in the instance.
SimDecisionAt(id, instance) == sim.parts[id].decisions[instance + 1][1].Vote.Value

-----------------------------------------------------------------------------
(* SpecValidateMessage: Participant.ValidateMessage, called on a            *)
(* participant created at any instance with any message and any answer of   *)
(* the host to GetCommitteeForInstance.                                     *)

\* A power table that does not validate: an entry without power.
InvalidTable == MkTable(<<Entry(1, 3), Entry(2, 2), Entry(3, 0)>>)

TokenCommitteeAnswers(instance) ==
    CommitteeAnswers(instance)
        \cup {[ok |-> TRUE, power |-> InvalidTable, beacon |-> Beacon(instance)]}

\* Messages of participant 1 for the instances up to MaxInstance + 1: signed
\* by it, and signed with another key.
TokenMessages ==
    UNION {{m, [m EXCEPT !.Signature = Sign(PubKeyOf(3), @.m)]} :
              m \in {SignedMessage(1, k, 0, QUALITY_PHASE, <<1, 2>>, NoJustification) :
                        k \in 0..(MaxInstance + 1)}}

TokenInit ==
    /\ \E initialInstance \in 0..MaxInstance :
          part = NewParticipant(Self, initialInstance)
    /\ vmsg = <<>>
    /\ vres = <<>>
    /\ q = <<>>
    /\ qcall = <<>>
    /\ gpbft = <<>>
    /\ net = <<>>
    /\ sim = <<>>

tokenOthers == <<q, qcall, gpbft, net, sim>>

\* vmsg keeps the call: the participant as the call found it, the message and
\* the host's answer; vres keeps the token the call returned.
TokenValidateMessage ==
    /\ \E msg \in TokenMessages :
          \E committee \in TokenCommitteeAnswers(msg.Vote.Instance) :
             /\ part' = participantValidateMessage(part, msg, committee)
             /\ vres' = validatedMessage(part, msg, committee)
             /\ vmsg' = <<[before |-> part, msg |-> msg, committee |-> committee]>>
    /\ UNCHANGED tokenOthers

TokenNext == TokenValidateMessage

SpecValidateMessage == TokenInit /\ [][TokenNext]_vars

\* The committee the call validates against: the cached one, else the host's.
TokenCommitteeKnown(call) ==
    \/ call.msg.Vote.Instance \in DOMAIN call.before.committees
    \/ call.committee.ok /\ PtValidate(call.committee.power)

TokenPassesValidation(call) ==
    LET c == IF call.msg.Vote.Instance \in DOMAIN call.before.committees
             THEN call.before.committees[call.msg.Vote.Instance]
             ELSE call.committee
    IN  ValidateAgainstCommittee(c.power, c.beacon, call.msg) = "ok"

====
